---- MODULE Spec2Model ----
(***************************************************************************)
(* Thermal-printer transport and print orchestration of the PDF-to-receipt *)
(* converter: the module-level device binding, connectToPrinter,           *)
(* sendCommand, imageToEscPosBitmap and printImages of the Bluetooth       *)
(* printer library, in its two revisions (src/unnamed/part_002, the        *)
(* chunking revision, and src/src/lib/bluetoothPrinter.ts, the earlier     *)
(* line-by-line revision).                                                 *)
(*                                                                         *)
(* Every step of the state machine is the code that runs between two       *)
(* await points of the single-threaded event loop.  The program counters   *)
(* named aw_* are the awaits the running printImages call is suspended at; *)
(* the others (conn_entry, send_entry, send_check, print_loop) are points  *)
(* inside one synchronous run, at which nothing else can be scheduled.     *)
(***************************************************************************)
EXTENDS Integers, Sequences, FiniteSets, TLC

(* ------------------------------ bounds --------------------------------- *)

\* Longest batch handed to printImages.
MaxImages == 2
\* printImages calls in one behaviour.
MaxPrints == 1
\* setConnectedDevice calls in one behaviour.
MaxRebinds == 2

(* ------------------------- ESC/POS command bytes ----------------------- *)

ESC == 27
GS == 29
LF == 10

\* commands.INIT, "Initialize"
INIT == <<ESC, 64>>
\* "Set density"
SET_DENSITY == <<GS, 124, 0, 50, 50>>
\* "Set line spacing"
SET_LINE_SPACING == <<ESC, 51, 0>>
\* "Cut paper"
CUT_PAPER == <<GS, 86, 0>>

Current == "part_002"
Legacy == "bluetoothPrinter.ts"
Revisions == {Current, Legacy}

\* A feed sent as the ESC d command instead of as line feeds.
FeedPaperByCommand(rev) == <<ESC, 100, 3>>

\* "Feed paper": three line feeds in the chunking revision, four before it.
FeedPaper(rev) == IF rev = Current THEN <<LF, LF, LF>> ELSE <<LF, LF, LF, LF>>

\* The maxWidth printImages hands to imageToEscPosBitmap.
PrintWidth(rev) == IF rev = Current THEN 384 ELSE 576

\* The ink threshold of imageToEscPosBitmap.
Threshold(rev) == IF rev = Current THEN 200 ELSE 140

(* ------------------------------ helpers -------------------------------- *)

Min(a, b) == IF a < b THEN a ELSE b

Last(seq) == seq[Len(seq)]

RECURSIVE Flatten(_)
Flatten(rows) ==
  IF rows = <<>> THEN <<>>
  ELSE IF Len(rows) = 1 THEN rows[1]
  ELSE Flatten(SubSeq(rows, 1, Len(rows) \div 2))
         \o Flatten(SubSeq(rows, Len(rows) \div 2 + 1, Len(rows)))

\* x & 0xff and (x >> 8) & 0xff on a non-negative integer.
LowByte(x) == x % 256
HighByte(x) == (x \div 256) % 256

(* ------------------------------ images --------------------------------- *)

\* An image the UI holds: width and height are the decoded image's; loads
\* says whether the data URL decodes (img.onload) or not (img.onerror).
Image(name, w, h, loads) == [name |-> name, width |-> w, height |-> h, loads |-> loads]

\* The images the UI can hand to printImages.
Strip == Image("strip", 384, 4, TRUE)
Band == Image("band", 224, 14, TRUE)
Page == Image("page", 384, 9, TRUE)
Broken == Image("broken", 384, 1, FALSE)
ImageIds == {Strip, Band, Page, Broken}

ImgLoads(id) == id.loads
ImgWidth(id) == id.width
ImgHeight(id) == id.height

\* What the pictures show.  "spots", "dark" and "light" are white pages with
\* a grey pixel at the left end and at every eighth place of every third
\* row; "faint" has blocks of levels within 10 of black on a ground of levels
\* within 10 of white; "grey" is a light grey all over; every other picture
\* is black on a diagonal pattern and white elsewhere.
SpotLevel(name) == CASE name = "spots" -> 100
                     [] name = "dark" -> 199
                     [] name = "light" -> 201
                     [] OTHER -> 255
NearBlackLevels == <<0, 5, 10>>
NearWhiteLevels == <<245, 250, 255>>

\* The canvas pixel (x, y) after drawImage, as its red = green = blue level.
CanvasLevel(id, px, py) ==
  IF id.name \in {"spots", "dark", "light"}
  THEN IF py % 3 = 0 /\ (px = 0 \/ px % 8 = 7)
       THEN SpotLevel(id.name) ELSE 255
  ELSE IF id.name = "faint"
       THEN IF ((px \div 4) + py) % 3 = 0
            THEN NearBlackLevels[(px % 3) + 1]
            ELSE NearWhiteLevels[(px % 3) + 1]
       ELSE IF id.name = "grey"
            THEN 210
            ELSE IF (px + 3 * py) % 5 = 0 THEN 0 ELSE 255

(* ---------------------- imageToEscPosBitmap ---------------------------- *)

\* height after "if (width > maxWidth)".
ScaledHeight(w, h, maxWidth) == IF w > maxWidth THEN (h * maxWidth) \div w ELSE h

\* The width without "width = Math.floor(width / 8) * 8".
ScaledWidthUnfloored(w, maxWidth) ==
  LET w1 == IF w > maxWidth THEN maxWidth ELSE w
  IN  IF w1 = 0 THEN 8 ELSE w1

\* width after the scaling and the floor to a multiple of 8 (minimum 8).
ScaledWidth(w, maxWidth) ==
  LET w1 == IF w > maxWidth THEN maxWidth ELSE w
      w8 == (w1 \div 8) * 8
  IN  IF w8 = 0 THEN 8 ELSE w8

\* Grey levels are kept in units of 16^-4 of a level.  The doubles of the
\* code are exact to a far smaller part of a level; here a division by 16
\* that leaves a remainder loses less than one unit, and since the shares of
\* an error add up to at most the error, a value is off by less than the
\* number of such divisions made before it.
Unit == 65536

\* pixels[idx]*0.299 + pixels[idx+1]*0.587 + pixels[idx+2]*0.114, in units.
Grayscale(r, g, b) ==
  LET thousandths == 299 * r + 587 * g + 114 * b
  IN  (thousandths \div 1000) * Unit + ((thousandths % 1000) * Unit) \div 1000

Abs(x) == IF x < 0 THEN -x ELSE x

\* The accumulated errors not yet consumed are kept in a window over the
\* pixels idx .. idx + width + 1, the only ones a diffusion step can reach:
\* window[1] belongs to the pixel being quantised, window[j] to the pixel
\* j - 1 places after it in the flat grayscale array.
\* grayscale[idx + delta] += error * weight / 16, when that neighbour is inside.
AddError(window, inside, delta, error, weight) ==
  IF inside THEN [window EXCEPT ![delta + 1] = @ + (error * weight) \div 16] ELSE window

\* The shares without the "x > 0" test of the below-left neighbour.
SharesWrapping(px, py, width, height) ==
  (IF px + 1 < width THEN <<[delta |-> 1, weight |-> 7]>> ELSE <<>>)
    \o (IF py + 1 < height
        THEN <<[delta |-> width - 1, weight |-> 3], [delta |-> width, weight |-> 5]>>
               \o (IF px + 1 < width THEN <<[delta |-> width + 1, weight |-> 1]>>
                   ELSE <<>>)
        ELSE <<>>)

\* The four "grayscale[idx + delta] += error * weight / 16" statements whose
\* tests pass at pixel (px, py), in their order.
Shares(px, py, width, height) ==
  (IF px + 1 < width THEN <<[delta |-> 1, weight |-> 7]>> ELSE <<>>)
    \o (IF py + 1 < height
        THEN (IF px > 0 THEN <<[delta |-> width - 1, weight |-> 3]>> ELSE <<>>)
               \o <<[delta |-> width, weight |-> 5]>>
               \o (IF px + 1 < width THEN <<[delta |-> width + 1, weight |-> 1]>>
                   ELSE <<>>)
        ELSE <<>>)

\* A noise floor that lets an error of exactly 10 levels through.
SignificantFromTen(error) == Abs(error) >= 10 * Unit

\* if (Math.abs(error) > 10)
Significant(error) == Abs(error) > 10 * Unit

\* One pixel of the dithering pass (the body of the two for loops): quantise
\* pixel idx, then diffuse the error to the right, below-left, below and
\* below-right neighbours when it exceeds the noise floor of 10 levels.
\* pass.dithered holds the pixels quantised so far, pass.errors their errors
\* and pass.spread whether each was handed on; pass.lost counts the
\* divisions by 16 that left a remainder, and pass.decided says that every
\* comparison was clear of its bound by at least the count before it, so
\* that it came out as it does in the code.
DitherPixel(id, pass, idx, width, height, threshold, dither) ==
  LET px == idx % width
      py == idx \div width
      v == CanvasLevel(id, px, py)
      oldPixel == Grayscale(v, v, v) + pass.window[1]
      newPixel == IF oldPixel < threshold * Unit THEN 0 ELSE 255
      error == oldPixel - newPixel * Unit
      shares == Shares(px, py, width, height)
      Share(window, n) == IF n <= Len(shares)
                          THEN AddError(window, TRUE, shares[n].delta, error,
                                        shares[n].weight)
                          ELSE window
      w4 == Share(Share(Share(Share(pass.window, 1), 2), 3), 4)
      diffuses == dither /\ Significant(error)
      diffused == IF diffuses THEN w4 ELSE pass.window
  IN  [dithered |-> Append(pass.dithered, newPixel),
       errors |-> Append(pass.errors, error),
       spread |-> Append(pass.spread, diffuses),
       lost |-> pass.lost + (IF diffuses /\ error % 16 # 0 THEN 4 ELSE 0),
       decided |-> /\ pass.decided
                   /\ Abs(oldPixel - threshold * Unit) >= pass.lost
                   /\ Abs(Abs(error) - 10 * Unit) >= pass.lost,
       window |-> Tail(diffused) \o <<0>>]

\* The pixels lo .. hi - 1 in raster order, each after the one before it.
RECURSIVE DitherRange(_, _, _, _, _, _, _, _)
DitherRange(id, pass, lo, hi, width, height, threshold, dither) ==
  IF hi <= lo THEN pass
  ELSE IF hi = lo + 1 THEN DitherPixel(id, pass, lo, width, height, threshold, dither)
  ELSE LET mid == (lo + hi) \div 2
       IN  CHOOSE after \in
             {DitherRange(id, first, mid, hi, width, height, threshold, dither) :
                first \in {DitherRange(id, pass, lo, mid, width, height, threshold,
                                      dither)}} : TRUE

\* The bit of pixel px + bit with the least significant bit first.
InkBitLeastFirst(dithered, width, px, py, bit) ==
  IF px + bit < width /\ dithered[py * width + px + bit + 1] = 0
  THEN 2 ^ bit ELSE 0

\* if (dithered[idx] === 0) byte |= 1 << (7 - bit), for px = x + bit < width.
InkBit(dithered, width, px, py, bit) ==
  IF px + bit < width /\ dithered[py * width + px + bit + 1] = 0
  THEN 2 ^ (7 - bit) ELSE 0

\* The byte of the 8 pixels at (px .. px + 7, py), most significant bit first.
PackByte(dithered, width, px, py) ==
  InkBit(dithered, width, px, py, 0) + InkBit(dithered, width, px, py, 1)
    + InkBit(dithered, width, px, py, 2) + InkBit(dithered, width, px, py, 3)
    + InkBit(dithered, width, px, py, 4) + InkBit(dithered, width, px, py, 5)
    + InkBit(dithered, width, px, py, 6) + InkBit(dithered, width, px, py, 7)

\* for (x = 0; x < width; x += 8) row.push(byte)
PackRow(dithered, width, py) ==
  [col \in 1..((width + 7) \div 8) |-> PackByte(dithered, width, (col - 1) * 8, py)]
    \o <<>>

\* for (y = lo; y < hi; y++) bitmap.push(row)
RECURSIVE PackRows(_, _, _, _)
PackRows(dithered, width, lo, hi) ==
  IF hi <= lo THEN <<>>
  ELSE IF hi = lo + 1 THEN <<PackRow(dithered, width, lo)>>
  ELSE PackRows(dithered, width, lo, (lo + hi) \div 2)
         \o PackRows(dithered, width, (lo + hi) \div 2, hi)

\* The dithering pass over image id: const dithered, and whether every
\* comparison was decided.  The earlier revision thresholds the luminance
\* directly, without error diffusion.
Dither(id, maxWidth, rev) ==
  LET width == ScaledWidth(ImgWidth(id), maxWidth)
      height == ScaledHeight(ImgWidth(id), ImgHeight(id), maxWidth)
      start == [dithered |-> <<>>, errors |-> <<>>, spread |-> <<>>, lost |-> 0,
                decided |-> TRUE,
                window |-> [j \in 1..(width + 2) |-> 0]]
  IN  DitherRange(id, start, 0, width * height, width, height, Threshold(rev),
                  rev = Current)

\* The bitmap of image id: height rows of width/8 bytes.
imageToEscPosBitmap(id, maxWidth, rev) ==
  LET width == ScaledWidth(ImgWidth(id), maxWidth)
      height == ScaledHeight(ImgWidth(id), ImgHeight(id), maxWidth)
  IN  CHOOSE bitmap \in
        {PackRows(pass.dithered, width, 0, height) :
           pass \in {Dither(id, maxWidth, rev)}} : TRUE

\* The bitmaps of the catalogue, as printImages obtains them.
Bitmaps == [rev \in Revisions |->
              [id \in ImageIds |-> imageToEscPosBitmap(id, PrintWidth(rev), rev)]]

(* ------------------------------ devices -------------------------------- *)

NoDevice == "null"
NoCharacteristic == [device |-> "null", service |-> "null", uuid |-> "null",
                     properties |-> [write |-> FALSE, writeWithoutResponse |-> FALSE]]

\* The printers the chooser can hand to setConnectedDevice, each with the
\* primary services and characteristics it exposes, in enumeration order.
Devices == {"P1", "P2", "P3", "P4", "P5"}

Characteristic(uuid, write, writeWithoutResponse) ==
  [uuid |-> uuid, write |-> write, writeWithoutResponse |-> writeWithoutResponse]

DeviceServices(d) ==
  CASE d = "P1" ->
         \* two known services, the lower-priority one enumerated first; the
         \* selected one has two known characteristics, the lower-priority one
         \* enumerated first
         << [uuid |-> "0000fff0-0000-1000-8000-00805f9b34fb",
             characteristics |->
               << Characteristic("0000fff2-0000-1000-8000-00805f9b34fb", FALSE, FALSE),
                  Characteristic("0000fff1-0000-1000-8000-00805f9b34fb", TRUE, TRUE) >>],
            [uuid |-> "49535343-fe7d-4ae5-8fa9-9fafd205e455",
             characteristics |->
               << Characteristic("bef8d6c9-9c21-4c9e-b632-bd58c1009f9f", TRUE, TRUE),
                  Characteristic("49535343-1e4d-4bd9-ba61-23c647249616", FALSE, FALSE),
                  Characteristic("49535343-8841-43f4-a8d4-ecbe34729bb3", TRUE, FALSE) >>] >>
    [] d = "P2" ->
         \* no known service and no known characteristic
         << [uuid |-> "0000ae30-0000-1000-8000-00805f9b34fb",
             characteristics |->
               << Characteristic("0000ae02-0000-1000-8000-00805f9b34fb", FALSE, FALSE),
                  Characteristic("0000ae01-0000-1000-8000-00805f9b34fb", FALSE, TRUE) >>] >>
    [] d = "P3" -> << >>
    [] d = "P5" ->
         \* a known service whose known characteristic only notifies
         << [uuid |-> "0000fff0-0000-1000-8000-00805f9b34fb",
             characteristics |->
               << Characteristic("0000fff1-0000-1000-8000-00805f9b34fb", FALSE, FALSE) >>] >>
    [] OTHER ->
         \* not a printer: nothing writable
         << [uuid |-> "0000180f-0000-1000-8000-00805f9b34fb",
             characteristics |->
               << Characteristic("00002a19-0000-1000-8000-00805f9b34fb", FALSE, FALSE) >>] >>

\* The known services with the third one tried before the second.
commonServiceUUIDsReordered ==
  << "000018f0-0000-1000-8000-00805f9b34fb",
     "0000fff0-0000-1000-8000-00805f9b34fb",
     "49535343-fe7d-4ae5-8fa9-9fafd205e455",
     "e7810a71-73ae-499d-8c15-faa9aef0c3f2" >>

commonServiceUUIDs ==
  << "000018f0-0000-1000-8000-00805f9b34fb",
     "49535343-fe7d-4ae5-8fa9-9fafd205e455",
     "0000fff0-0000-1000-8000-00805f9b34fb",
     "e7810a71-73ae-499d-8c15-faa9aef0c3f2" >>

commonCharUUIDs ==
  << "00002af1-0000-1000-8000-00805f9b34fb",
     "49535343-8841-43f4-a8d4-ecbe34729bb3",
     "0000fff1-0000-1000-8000-00805f9b34fb",
     "bef8d6c9-9c21-4c9e-b632-bd58c1009f9f" >>

\* Index in DeviceServices(d) of the service server.getPrimaryService(uuid)
\* resolves to, 0 when it rejects (no such service).
ServiceByUuid(d, uuid) ==
  LET found == {n \in 1..Len(DeviceServices(d)) : DeviceServices(d)[n].uuid = uuid}
  IN  IF found = {} THEN 0 ELSE CHOOSE n \in found : \A m \in found : n <= m

\* The handle the platform gives for characteristic c of service n of device d.
Handle(d, n, c) ==
  [device |-> d, service |-> DeviceServices(d)[n].uuid, uuid |-> c.uuid,
   properties |-> [write |-> c.write, writeWithoutResponse |-> c.writeWithoutResponse]]

\* What service.getCharacteristic(uuid) resolves to, NoCharacteristic when it
\* rejects (no such characteristic).
CharacteristicByUuid(d, n, uuid) ==
  LET cs == DeviceServices(d)[n].characteristics
      found == {m \in 1..Len(cs) : cs[m].uuid = uuid}
  IN  IF found = {} THEN NoCharacteristic
      ELSE Handle(d, n, cs[CHOOSE m \in found : \A o \in found : m <= o])

\* characteristics.find(c => c.properties.write || c.properties.writeWithoutResponse),
\* NoCharacteristic for undefined.
FindWritable(d, n) ==
  LET cs == DeviceServices(d)[n].characteristics
      found == {m \in 1..Len(cs) : cs[m].write \/ cs[m].writeWithoutResponse}
  IN  IF found = {} THEN NoCharacteristic
      ELSE Handle(d, n, cs[CHOOSE m \in found : \A o \in found : m <= o])

(* ------------------------------- errors -------------------------------- *)

\* A thrown value: isError is "instanceof Error".
Error(message) == [isError |-> TRUE, name |-> "Error", message |-> message]
TypeError == [isError |-> TRUE, name |-> "TypeError",
              message |-> "Cannot read properties of null"]
NoError == [isError |-> FALSE, name |-> "none", message |-> ""]

\* ctx.getImageData(0, 0, width, 0): a DOMException.
IndexSizeError == [isError |-> TRUE, name |-> "IndexSizeError",
                   message |-> "The source height is 0."]

\* What a rejected platform operation (GATT connect, discovery, write)
\* rejects with: a DOMException, or a value that is no Error at all.
PlatformErrors ==
  { [isError |-> TRUE, name |-> "NetworkError", message |-> "GATT operation failed"],
    [isError |-> FALSE, name |-> "string", message |-> "GATT Error Unknown"] }

\* The catch of printImages without its instanceof test.
FailedToPrintMessage(error) == Error("Failed to print: " \o error.message)

\* catch (error) { throw new Error(`Failed to print: ${...}`) } of printImages.
FailedToPrint(error) ==
  Error("Failed to print: " \o (IF error.isError THEN error.message ELSE "Unknown error"))

(* --------------------------- command builder --------------------------- *)

\* A raster command whose dimension fields have the high byte first.
RasterCommandBigEndian(bitmap) ==
  LET widthBytes == Len(bitmap[1])
      height == Len(bitmap)
  IN  <<GS, 118, 48, 0, HighByte(widthBytes), LowByte(widthBytes),
        HighByte(height), LowByte(height)>> \o Flatten(bitmap)

\* The GS v 0 raster command printImages builds from a bitmap.
RasterCommand(bitmap) ==
  LET widthBytes == Len(bitmap[1])
      height == Len(bitmap)
  IN  <<GS, 118, 48, 0, LowByte(widthBytes), HighByte(widthBytes),
        LowByte(height), HighByte(height)>> \o Flatten(bitmap)

\* The ESC * command the earlier revision builds for line py of a bitmap.
LineCommand(bitmap, py) ==
  LET widthBytes == Len(bitmap[1])
  IN  <<ESC, 42, 33, LowByte(widthBytes), HighByte(widthBytes)>>
        \o bitmap[py + 1] \o <<LF>>

\* The raster commands of the catalogue.
Rasters == [id \in ImageIds |-> RasterCommand(Bitmaps[Current][id])]

(* ------------------------------ sendCommand ---------------------------- *)

maxChunkSize == 200

\* A slice that ends one byte late.
ChunkInclusive(data, from) ==
  SubSeq(data, from + 1, Min(from + maxChunkSize + 1, Len(data)))

\* data.slice(offset, offset + maxChunkSize)
Chunk(data, from) == SubSeq(data, from + 1, Min(from + maxChunkSize, Len(data)))

\* Whether sendCommand sends data in the chunk loop rather than in one write.
IsChunked(data, rev) == rev = Current /\ Len(data) > maxChunkSize

\* Every write made with response.
WriteModeAcknowledged(characteristic) == "writeValue"

\* The write operation sendCommand picks for a characteristic.
WriteMode(characteristic) ==
  IF characteristic.properties.writeWithoutResponse
  THEN "writeValueWithoutResponse" ELSE "writeValue"

(* -------------------------------- state -------------------------------- *)

VARIABLES
  revision,               \* which revision of the library is running
  connectedDevice,        \* let connectedDevice
  printerCharacteristic,  \* let printerCharacteristic
  connected,              \* device.gatt.connected, per device
  images, onProgress,     \* the arguments of printImages (onProgress: given or not)
  pc,                     \* where the running printImages call is
  i, step, line,          \* printImages: image index, command of the image, bitmap line
  caller, server, service, k,  \* connectToPrinter: who awaits it, and its locals
  command, offset,        \* sendCommand: its argument and the chunk loop's offset
  reconnects,             \* connectToPrinter calls made by the running sendCommand
  cmdLog,                 \* the sendCommand calls of the latest printImages call
  wire,                   \* the characteristic writes of that printImages call
  progress,               \* the onProgress calls of that printImages call
  gattOps,                \* the GATT operations of the latest connectToPrinter call,
                          \* closed by what was bound when it returned true
  wasConnected,           \* gatt.connected as that connectToPrinter call found it
  assigned,               \* whether that call has assigned printerCharacteristic yet
  result, raised, rejection,   \* how the latest printImages call ended
  prints,                 \* printImages calls so far
  rebinds, bindArg,       \* setConnectedDevice calls so far, the latest one's argument
  job,                    \* which printImages call is the running one
  other,                  \* the printImages call suspended behind the running one
  switches,               \* how often the suspended call was resumed before the
                          \* running one ended
  request,                \* the arguments of an imageToEscPosBitmap call
  encoded,                \* what that call settled with
  rasterCmd,              \* const cmd of printImages, the raster command it builds
  isPrinterConnected,     \* const [isPrinterConnected, setIsPrinterConnected]
  pendingPrintImages,     \* const [pendingPrintImages, setPendingPrintImages]
  showPrinterDialog,      \* const [showPrinterDialog, setShowPrinterDialog]
  connecting,             \* the dialog's connectPrinter call, with the onConnected
                          \* it was rendered with
  autoPrint               \* the 100 ms timeout of handlePrinterConnected, with the
                          \* render its callback closes over, and what it did

args == <<revision, images, onProgress>>
binding == <<connectedDevice, printerCharacteristic>>
frame == <<i, step, line>>
conn == <<caller, server, service, k>>
send == <<command, offset, reconnects>>
observed == <<cmdLog, wire, progress>>
gatt == <<gattOps, wasConnected, assigned>>
outcome == <<result, raised, rejection>>
counts == <<prints, rebinds, bindArg>>
calls == <<job, other, switches>>
encoding == <<request, encoded, rasterCmd>>
page == <<isPrinterConnected, pendingPrintImages, showPrinterDialog, connecting, autoPrint>>

vars == <<revision, connectedDevice, printerCharacteristic, connected, images,
          onProgress, pc, i, step, line, caller, server, service, k, command,
          offset, reconnects, cmdLog, wire, progress, gattOps, wasConnected,
          assigned,
          result, raised, rejection, prints, rebinds, bindArg, job, other,
          switches, request, encoded, rasterCmd, isPrinterConnected,
          pendingPrintImages, showPrinterDialog, connecting, autoPrint>>

\* No printImages call is suspended behind the running one.
NoCall == [pc |-> "none"]

\* No imageToEscPosBitmap call has been made, and none has settled.
NoRequest == [dataUrl |-> Image("none", 0, 0, FALSE), maxWidth |-> 0]
NotEncoded == [status |-> "none"]

\* useState(null) of pendingPrintImages, and a batch stored in it.
NoPending == [set |-> FALSE, images |-> <<>>]
Pending(imagesToPrint) == [set |-> TRUE, images |-> imagesToPrint]

\* No connectPrinter call of the dialog is running; no timeout is armed.
NotConnecting == [pc |-> "none"]
NoTimeout == [pc |-> "none"]

\* The awaits of the chunk loop of sendCommand.
ChunkPoints == {"aw_chunk", "aw_chunkpace"}

\* The awaits a printImages call can be suspended at.
AwaitPoints == {"aw_connect", "aw_connect2", "aw_settle", "aw_services", "aw_service",
                "aw_chars", "aw_char", "aw_ready", "aw_write", "aw_pace", "aw_chunk",
                "aw_chunkpace", "aw_delay", "aw_image", "aw_line", "aw_gap"}

\* The batches of images among ids the UI can hand to printImages.
Batches(ids) == UNION {[1..n -> ids] : n \in 0..MaxImages}

\* The state before a printImages call of revision rev on a batch of images
\* among ids: a device may have been stored, and its link may be up.
Session(rev, ids) ==
  /\ revision = rev
  /\ connectedDevice \in Devices \cup {NoDevice}
  /\ printerCharacteristic = NoCharacteristic
  /\ \E up \in BOOLEAN : connected = [d \in Devices |-> up /\ d = connectedDevice]
  /\ images \in Batches(ids)
  /\ onProgress \in BOOLEAN
  /\ pc = "idle"
  /\ i = 0 /\ step = 0 /\ line = 0
  /\ caller = "none" /\ server = NoDevice /\ service = 0 /\ k = 0
  /\ command = <<>> /\ offset = 0 /\ reconnects = 0
  /\ cmdLog = <<>> /\ wire = <<>> /\ progress = <<>>
  /\ gattOps = <<>> /\ wasConnected = FALSE /\ assigned = FALSE
  /\ result = "none" /\ raised = NoError /\ rejection = NoError
  /\ prints = 0 /\ rebinds = 0 /\ bindArg = connectedDevice
  /\ job = 1 /\ other = NoCall /\ switches = 0
  /\ isPrinterConnected = (connectedDevice # NoDevice)
  /\ pendingPrintImages = NoPending
  /\ showPrinterDialog = FALSE
  /\ connecting = NotConnecting
  /\ autoPrint = NoTimeout

InitFor(rev, ids) ==
  /\ Session(rev, ids)
  /\ request = NoRequest /\ encoded = NotEncoded /\ rasterCmd = <<>>

Init == InitFor(Current, ImageIds)
InitLegacy == InitFor(Legacy, ImageIds)
InitInterleaved == InitFor(Current, {Page})

\* The bitmaps the raster command is built from where the builder is examined
\* on its own: rows rows of rowBytes bytes, as imageToEscPosBitmap resolves
\* with for an image 8 rowBytes pixels wide and rows pixels high, every byte
\* different from the one before it.  A state names such a bitmap by its
\* shape and seed.  RowBytes are widths up to the 48 and 72 bytes of the two
\* print widths; RowCounts lie around the values where a byte of the height
\* field changes and include the 500 rows of the worked example.
RowBytes == {1, 3, 28, 48, 72}
RowCounts == {1, 2, 255, 256, 257, 500, 65535, 65536, 65537}
Seeds == {1, 7}
RasterInput(wb, h, seed) ==
  [r \in 1..h |-> [c \in 1..wb |-> (((r - 1) * wb + c) * seed) % 256]]
RasterInputs ==
  [rowBytes : RowBytes, rows : {n \in RowCounts : n <= 500}, seed : Seeds]
    \cup [rowBytes : {1}, rows : {n \in RowCounts : n > 500}, seed : {1}]

\* The state in which imageToEscPosBitmap has resolved inside printImages and
\* the raster command is about to be built.
InitBuilder ==
  /\ Session(Current, {})
  /\ connectedDevice = NoDevice
  /\ ~onProgress
  /\ request = NoRequest
  /\ encoded \in [status : {"resolved"}, shape : RasterInputs]
  /\ rasterCmd = <<>>

(* --------------------------- shared fragments -------------------------- *)

\* An error thrown inside printImages' try block: its catch rejects the call.
\* inConnect: thrown inside connectToPrinter's try block, whose catch clears
\* printerCharacteristic in the chunking revision only.
Throw(error, inConnect) ==
  /\ result' = "rejected"
  /\ raised' = error
  /\ rejection' = FailedToPrint(error)
  /\ pc' = "idle"
  /\ printerCharacteristic' = IF inConnect /\ revision = Current
                              THEN NoCharacteristic ELSE printerCharacteristic

\* printImages calls sendCommand(cmd) as command number st of image i.
Issue(cmd, st) ==
  /\ command' = cmd
  /\ step' = st
  /\ cmdLog' = Append(cmdLog, [image |-> i + 1, command |-> cmd,
                                bound |-> printerCharacteristic # NoCharacteristic])
  /\ offset' = 0
  /\ reconnects' = 0
  /\ pc' = "send_entry"

\* What a GATT operation on device d can settle with: NoError for success,
\* possible only while the link is up.
Outcomes(d) == (IF d # NoDevice /\ connected[d] THEN {NoError} ELSE {}) \cup PlatformErrors

\* The write the running call awaits: its latest one.
Awaited ==
  CHOOSE n \in 1..Len(wire) :
    wire[n].job = job /\ \A m \in (n + 1)..Len(wire) : wire[m].job # job

\* What the awaited write can settle with.
WriteOutcomes ==
  LET w == wire[Awaited]
      allowed == IF w.mode = "writeValueWithoutResponse"
                 THEN w.characteristic.properties.writeWithoutResponse
                 ELSE w.characteristic.properties.write
  IN  IF allowed THEN Outcomes(w.characteristic.device) ELSE PlatformErrors

\* characteristic.writeValue...(data) is called.
Write(data) ==
  wire' = Append(wire, [job |-> job,
                        command |-> Len(cmdLog),
                        characteristic |-> printerCharacteristic,
                        mode |-> WriteMode(printerCharacteristic),
                        data |-> data,
                        status |-> "pending"])

\* The awaited write settles with e.
Settle(e) ==
  wire' = [wire EXCEPT ![Awaited].status = IF e = NoError THEN "ok" ELSE "failed"]

(* ------------------------------ the binding ---------------------------- *)

\* A setConnectedDevice that keeps the cached characteristic.
setConnectedDeviceKeepingCharacteristic(device) ==
  /\ rebinds < MaxRebinds
  /\ connectedDevice' = device
  /\ rebinds' = rebinds + 1
  /\ bindArg' = device
  /\ UNCHANGED <<calls, encoding, page>>
  /\ UNCHANGED <<args, printerCharacteristic, connected, pc, frame, conn, send, observed,
                 gatt, outcome, prints>>

\* setConnectedDevice(device)
setConnectedDevice(device) ==
  /\ rebinds < MaxRebinds
  /\ connectedDevice' = device
  /\ printerCharacteristic' = NoCharacteristic
  /\ rebinds' = rebinds + 1
  /\ bindArg' = device
  /\ UNCHANGED <<calls, encoding, page>>
  /\ UNCHANGED <<args, connected, pc, frame, conn, send, observed, gatt, outcome, prints>>

\* The platform reports the link to device d lost.
GattServerDisconnected(d) ==
  /\ pc \in AwaitPoints \cup {"idle"}
  /\ connected[d]
  /\ connected' = [connected EXCEPT ![d] = FALSE]
  /\ UNCHANGED <<calls, encoding, page>>
  /\ UNCHANGED <<args, binding, pc, frame, conn, send, observed, gatt, outcome, counts>>

(* ---------------------------- connectToPrinter ------------------------- *)

GattOp(name, target) == <<name, target>>

\* Where connectToPrinter returns true to.
ReturnFromConnect == IF caller = "printImages" THEN "print_loop" ELSE "send_check"

\* connectToPrinter up to its first await.
connectToPrinter ==
  /\ pc = "conn_entry"
  /\ service' = 0 /\ k' = 0
  /\ IF connectedDevice = NoDevice
     THEN \* thrown before the try block
          /\ Throw(Error("No printer connected"), FALSE)
          /\ gattOps' = <<>> /\ wasConnected' = FALSE /\ assigned' = FALSE
          /\ UNCHANGED server
     ELSE /\ wasConnected' = connected[connectedDevice]
          /\ assigned' = FALSE
          /\ server' = connectedDevice
          /\ IF revision = Current
             THEN IF connected[connectedDevice]
                  THEN gattOps' = <<>> /\ pc' = "aw_settle"
                  ELSE gattOps' = <<GattOp("connect", connectedDevice)>> /\ pc' = "aw_connect"
             ELSE /\ gattOps' = <<GattOp("connect", connectedDevice)>>
                  /\ pc' = IF connected[connectedDevice] THEN "aw_connect2" ELSE "aw_connect"
          /\ UNCHANGED <<printerCharacteristic, outcome>>
  /\ UNCHANGED <<calls, encoding, page>>
  /\ UNCHANGED <<args, connectedDevice, connected, frame, caller, send, observed, counts>>

\* await connectedDevice.gatt?.connect() of the not-connected branch settles.
GattConnect ==
  /\ pc = "aw_connect"
  /\ \E e \in {NoError} \cup PlatformErrors :
       IF e # NoError
       THEN Throw(e, TRUE) /\ UNCHANGED <<connected, server, gattOps>>
       ELSE /\ connected' = [connected EXCEPT ![server] = TRUE]
            /\ IF connectedDevice = NoDevice
               THEN Throw(TypeError, TRUE) /\ UNCHANGED <<server, gattOps>>
               ELSE /\ server' = connectedDevice
                    /\ IF revision = Current
                       THEN /\ UNCHANGED gattOps
                            /\ IF connected'[connectedDevice]
                               THEN pc' = "aw_settle"
                                    /\ UNCHANGED <<printerCharacteristic, outcome>>
                               ELSE Throw(Error("Failed to connect to GATT server"), TRUE)
                       ELSE /\ gattOps' = Append(gattOps, GattOp("connect", connectedDevice))
                            /\ pc' = "aw_connect2"
                            /\ UNCHANGED <<printerCharacteristic, outcome>>
  /\ UNCHANGED <<calls, encoding, page>>
  /\ UNCHANGED <<args, connectedDevice, frame, caller, service, k, send, observed,
                 wasConnected, assigned, counts>>

\* const server = await connectedDevice.gatt?.connect() of the earlier revision settles.
GattConnectAgain ==
  /\ pc = "aw_connect2"
  /\ \E e \in {NoError} \cup PlatformErrors :
       IF e # NoError
       THEN Throw(e, TRUE) /\ UNCHANGED <<connected, gattOps>>
       ELSE /\ connected' = [connected EXCEPT ![server] = TRUE]
            /\ gattOps' = Append(gattOps, GattOp("getPrimaryServices", server))
            /\ pc' = "aw_services"
            /\ UNCHANGED <<printerCharacteristic, outcome>>
  /\ UNCHANGED <<calls, encoding, page>>
  /\ UNCHANGED <<args, connectedDevice, frame, conn, send, observed, wasConnected,
                 assigned, counts>>

\* The 500 ms settle delay ends: server.getPrimaryServices() is called.
Settled ==
  /\ pc = "aw_settle"
  /\ gattOps' = Append(gattOps, GattOp("getPrimaryServices", server))
  /\ pc' = "aw_services"
  /\ UNCHANGED <<calls, encoding, page>>
  /\ UNCHANGED <<args, binding, connected, frame, conn, send, observed, wasConnected,
                 assigned, outcome, counts>>

\* A discovery that does not look at the number of services.
GetPrimaryServicesUnchecked ==
  /\ pc = "aw_services"
  /\ \E e \in Outcomes(server) :
       IF e # NoError
       THEN Throw(e, TRUE) /\ UNCHANGED <<k, gattOps>>
       ELSE /\ k' = 1
            /\ gattOps' = Append(gattOps, GattOp("getPrimaryService", commonServiceUUIDs[1]))
            /\ pc' = "aw_service"
            /\ UNCHANGED <<printerCharacteristic, outcome>>
  /\ UNCHANGED <<calls, encoding, page>>
  /\ UNCHANGED <<args, connectedDevice, connected, frame, caller, server, service, send,
                 observed, wasConnected, assigned, counts>>

\* await server.getPrimaryServices() settles.
GetPrimaryServices ==
  /\ pc = "aw_services"
  /\ \E e \in Outcomes(server) :
       IF e # NoError
       THEN Throw(e, TRUE) /\ UNCHANGED <<k, gattOps>>
       ELSE IF Len(DeviceServices(server)) = 0
            THEN /\ Throw(Error("No services found in device. Make sure it's a Bluetooth printer."),
                          TRUE)
                 /\ UNCHANGED <<k, gattOps>>
            ELSE /\ k' = 1
                 /\ gattOps' = Append(gattOps, GattOp("getPrimaryService", commonServiceUUIDs[1]))
                 /\ pc' = "aw_service"
                 /\ UNCHANGED <<printerCharacteristic, outcome>>
  /\ UNCHANGED <<calls, encoding, page>>
  /\ UNCHANGED <<args, connectedDevice, connected, frame, caller, server, service, send,
                 observed, wasConnected, assigned, counts>>

\* await server.getPrimaryService(uuid) settles, for the k-th known service:
\* found, or rejected and the loop continues, or the loop ends and the first
\* enumerated service is taken.
GetPrimaryService ==
  /\ pc = "aw_service"
  /\ LET found == IF connected[server]
                  THEN ServiceByUuid(server, commonServiceUUIDs[k]) ELSE 0
     IN  IF found = 0 /\ k < Len(commonServiceUUIDs)
         THEN /\ k' = k + 1
              /\ gattOps' = Append(gattOps,
                                   GattOp("getPrimaryService", commonServiceUUIDs[k + 1]))
              /\ UNCHANGED <<pc, service>>
         ELSE /\ service' = IF found = 0 THEN 1 ELSE found
              /\ gattOps' = Append(gattOps,
                   GattOp("getCharacteristics", DeviceServices(server)[service'].uuid))
              /\ pc' = "aw_chars"
              /\ UNCHANGED k
  /\ UNCHANGED <<calls, encoding, page>>
  /\ UNCHANGED <<args, binding, connected, frame, caller, server, send, observed,
                 wasConnected, assigned, outcome, counts>>

\* await service.getCharacteristics() settles.
GetCharacteristics ==
  /\ pc = "aw_chars"
  /\ \E e \in Outcomes(server) :
       IF e # NoError
       THEN Throw(e, TRUE) /\ UNCHANGED <<k, gattOps>>
       ELSE /\ k' = 1
            /\ gattOps' = Append(gattOps, GattOp("getCharacteristic", commonCharUUIDs[1]))
            /\ pc' = "aw_char"
            /\ UNCHANGED <<printerCharacteristic, outcome>>
  /\ UNCHANGED <<calls, encoding, page>>
  /\ UNCHANGED <<args, connectedDevice, connected, frame, caller, server, service, send,
                 observed, wasConnected, assigned, counts>>

\* The characteristic connectToPrinter is left with after the loop over the
\* known characteristics: the one already in printerCharacteristic, else the
\* first writable one of the service (NoCharacteristic when there is none).
AfterCharLoop(bound) ==
  IF bound = NoCharacteristic THEN FindWritable(server, service) ELSE bound

\* await service.getCharacteristic(uuid) settles, for the k-th known
\* characteristic: assigned to printerCharacteristic, or rejected and the loop
\* continues, or the loop ends.
GetCharacteristic ==
  /\ pc = "aw_char"
  /\ LET found == IF connected[server]
                  THEN CharacteristicByUuid(server, service, commonCharUUIDs[k])
                  ELSE NoCharacteristic
     IN  IF found = NoCharacteristic /\ k < Len(commonCharUUIDs)
         THEN /\ k' = k + 1
              /\ gattOps' = Append(gattOps,
                                   GattOp("getCharacteristic", commonCharUUIDs[k + 1]))
              /\ UNCHANGED <<pc, printerCharacteristic, outcome, assigned>>
         ELSE LET bound == AfterCharLoop(IF found = NoCharacteristic
                                         THEN printerCharacteristic ELSE found)
              IN  /\ UNCHANGED k
                  /\ assigned' = (found # NoCharacteristic
                                    \/ printerCharacteristic = NoCharacteristic)
                  /\ IF bound = NoCharacteristic
                     THEN /\ Throw(Error("No writable characteristic found. Device may not be a printer."),
                                   TRUE)
                          /\ UNCHANGED gattOps
                     ELSE /\ printerCharacteristic' = bound
                          /\ IF revision = Current
                             THEN pc' = "aw_ready" /\ UNCHANGED gattOps
                             ELSE /\ pc' = ReturnFromConnect
                                  /\ gattOps' = Append(gattOps, GattOp("return", bound))
                          /\ UNCHANGED outcome
  /\ UNCHANGED <<calls, encoding, page>>
  /\ UNCHANGED <<args, connectedDevice, connected, frame, caller, server, service, send,
                 observed, wasConnected, counts>>

\* The 300 ms delay ends: connectToPrinter returns true.
Ready ==
  /\ pc = "aw_ready"
  /\ pc' = ReturnFromConnect
  /\ gattOps' = Append(gattOps, GattOp("return", printerCharacteristic))
  /\ UNCHANGED <<calls, encoding, page>>
  /\ UNCHANGED <<args, binding, connected, frame, conn, send, observed, wasConnected,
                 assigned, outcome, counts>>

(* ------------------------------ sendCommand ---------------------------- *)

\* A sendCommand without the lazy connect.
sendCommandWithoutConnect ==
  /\ pc = "send_entry"
  /\ pc' = "send_check"
  /\ UNCHANGED <<calls, encoding, page>>
  /\ UNCHANGED <<args, binding, connected, frame, conn, send, observed, gatt, outcome,
                 counts>>

\* sendCommand up to "if (!printerCharacteristic) await connectToPrinter()".
sendCommand ==
  /\ pc = "send_entry"
  /\ IF printerCharacteristic = NoCharacteristic
     THEN pc' = "conn_entry" /\ caller' = "sendCommand" /\ reconnects' = reconnects + 1
     ELSE pc' = "send_check" /\ UNCHANGED <<caller, reconnects>>
  /\ UNCHANGED <<calls, encoding, page>>
  /\ UNCHANGED <<args, binding, connected, frame, server, service, k, command, offset,
                 observed, gatt, outcome, counts>>

\* From "if (!printerCharacteristic) throw" to the first write.
SendFirst ==
  /\ pc = "send_check"
  /\ IF printerCharacteristic = NoCharacteristic
     THEN Throw(Error("Printer not connected"), FALSE) /\ UNCHANGED wire
     ELSE /\ Write(IF IsChunked(command, revision) THEN Chunk(command, 0) ELSE command)
          /\ pc' = IF IsChunked(command, revision) THEN "aw_chunk" ELSE "aw_write"
          /\ UNCHANGED <<printerCharacteristic, outcome>>
  /\ UNCHANGED <<calls, encoding, page>>
  /\ UNCHANGED <<args, connectedDevice, connected, frame, conn, send, cmdLog, progress,
                 gatt, counts>>

\* After sendCommand has returned to printImages: the delay that follows the
\* command, or, after the image data, the next command at once.
AfterSend ==
  IF step # 4
  THEN pc' = "aw_delay" /\ UNCHANGED <<step, command, offset, reconnects, cmdLog>>
  ELSE IF revision = Current
       THEN Issue(FeedPaper(revision), 5)
       ELSE pc' = "aw_line" /\ UNCHANGED <<step, command, offset, reconnects, cmdLog>>

\* A sendCommand whose catch swallows the failure of the write.
WrittenSwallowingFailure ==
  /\ pc = "aw_write"
  /\ \E e \in WriteOutcomes :
       /\ Settle(e)
       /\ IF revision = Current
          THEN pc' = "aw_pace" /\ UNCHANGED <<step, send, cmdLog>>
          ELSE AfterSend
  /\ UNCHANGED <<calls, encoding, page>>
  /\ UNCHANGED <<args, binding, connected, i, line, conn, progress, gatt, outcome, counts>>

\* The write of a command of at most maxChunkSize bytes settles (in the
\* earlier revision: of any command, after which sendCommand returns).
Written ==
  /\ pc = "aw_write"
  /\ \E e \in WriteOutcomes :
       /\ Settle(e)
       /\ IF e # NoError
          THEN Throw(e, FALSE) /\ UNCHANGED <<step, send, cmdLog>>
          ELSE /\ IF revision = Current
                  THEN pc' = "aw_pace" /\ UNCHANGED <<step, send, cmdLog>>
                  ELSE AfterSend
               /\ UNCHANGED <<printerCharacteristic, outcome>>
  /\ UNCHANGED <<calls, encoding, page>>
  /\ UNCHANGED <<args, connectedDevice, connected, i, line, conn, progress, gatt, counts>>

\* The 10 ms delay after the single write ends: sendCommand returns.
Paced ==
  /\ pc = "aw_pace"
  /\ AfterSend
  /\ UNCHANGED <<calls, encoding, page>>
  /\ UNCHANGED <<args, binding, connected, i, line, conn, wire, progress, gatt, outcome,
                 counts>>

\* A chunk loop that writes a failed chunk again.
ChunkWrittenRetrying ==
  /\ pc = "aw_chunk"
  /\ \E e \in WriteOutcomes :
       IF e # NoError
       THEN /\ wire' = Append([wire EXCEPT ![Len(wire)].status = "failed"],
                              [Last(wire) EXCEPT !.status = "pending"])
            /\ UNCHANGED pc
       ELSE Settle(e) /\ pc' = "aw_chunkpace"
  /\ UNCHANGED <<calls, encoding, page>>
  /\ UNCHANGED <<args, binding, connected, frame, conn, send, cmdLog, progress, gatt,
                 outcome, counts>>

\* The write of a chunk settles.
ChunkWritten ==
  /\ pc = "aw_chunk"
  /\ \E e \in WriteOutcomes :
       /\ Settle(e)
       /\ IF e # NoError
          THEN Throw(e, FALSE)
          ELSE pc' = "aw_chunkpace" /\ UNCHANGED <<printerCharacteristic, outcome>>
  /\ UNCHANGED <<calls, encoding, page>>
  /\ UNCHANGED <<args, connectedDevice, connected, frame, conn, send, cmdLog, progress,
                 gatt, counts>>

\* A chunk loop that does not advance its offset.
ChunkPacedStalled ==
  /\ pc = "aw_chunkpace"
  /\ UNCHANGED vars

\* The 50 ms delay after a chunk ends: the next chunk is written, or the loop
\* ends and sendCommand returns.
ChunkPaced ==
  /\ pc = "aw_chunkpace"
  /\ IF offset + maxChunkSize < Len(command)
     THEN /\ offset' = offset + maxChunkSize
          /\ UNCHANGED <<step, command, reconnects, cmdLog>>
          /\ IF printerCharacteristic = NoCharacteristic
             THEN \* printerCharacteristic.properties of null
                  Throw(TypeError, FALSE) /\ UNCHANGED wire
             ELSE /\ Write(Chunk(command, offset + maxChunkSize))
                  /\ pc' = "aw_chunk"
                  /\ UNCHANGED <<printerCharacteristic, outcome>>
     ELSE AfterSend /\ UNCHANGED <<printerCharacteristic, outcome, wire>>
  /\ UNCHANGED <<calls, encoding, page>>
  /\ UNCHANGED <<args, connectedDevice, connected, i, line, conn, progress, gatt, counts>>

(* ------------------------------ printImages ---------------------------- *)

\* printImages(images, onProgress) up to its first await.
printImages ==
  /\ pc = "idle"
  /\ prints < MaxPrints
  /\ prints' = prints + 1
  /\ i' = 0 /\ step' = 0 /\ line' = 0
  /\ server' = NoDevice /\ service' = 0 /\ k' = 0
  /\ command' = <<>> /\ offset' = 0 /\ reconnects' = 0
  /\ cmdLog' = <<>> /\ wire' = <<>> /\ progress' = <<>>
  /\ gattOps' = <<>> /\ wasConnected' = FALSE /\ assigned' = FALSE
  /\ IF connectedDevice = NoDevice
     THEN \* thrown before the try block
          /\ result' = "rejected"
          /\ raised' = Error("No printer connected. Please connect a printer first.")
          /\ rejection' = raised'
          /\ UNCHANGED <<pc, caller>>
     ELSE /\ result' = "pending"
          /\ raised' = NoError
          /\ rejection' = NoError
          /\ pc' = "conn_entry"
          /\ caller' = "printImages"
  /\ UNCHANGED <<calls, encoding, page>>
  /\ UNCHANGED <<args, binding, connected, rebinds, bindArg>>

\* The head of "for (let i = 0; i < images.length; i++)".
PrintLoop ==
  /\ pc = "print_loop"
  /\ IF i < Len(images)
     THEN Issue(INIT, 1) /\ UNCHANGED result
     ELSE /\ result' = "resolved"
          /\ pc' = "idle"
          /\ UNCHANGED <<step, send, cmdLog>>
  /\ UNCHANGED <<calls, encoding, page>>
  /\ UNCHANGED <<args, binding, connected, i, line, conn, wire, progress, gatt, raised,
                 rejection, counts>>

\* onProgress called with the loop index itself.
ProgressArgsZeroBased(index, total) == <<index, total>>

\* onProgress(i + 1, images.length)
ProgressArgs(index, total) == <<index + 1, total>>

\* The delay after a command ends: the next command, the image conversion,
\* or, after the cut, onProgress and the end of the iteration.
Delayed ==
  /\ pc = "aw_delay"
  /\ CASE step = 1 -> Issue(SET_DENSITY, 2) /\ UNCHANGED <<i, progress>>
       [] step = 2 -> Issue(SET_LINE_SPACING, 3) /\ UNCHANGED <<i, progress>>
       [] step = 3 -> /\ pc' = "aw_image"
                      /\ UNCHANGED <<i, step, send, cmdLog, progress>>
       [] step = 5 -> Issue(CUT_PAPER, 6) /\ UNCHANGED <<i, progress>>
       [] OTHER ->
            /\ progress' = IF onProgress
                           THEN Append(progress, [args |-> ProgressArgs(i, Len(images)),
                                                  commands |-> Len(cmdLog)])
                           ELSE progress
            /\ IF i < Len(images) - 1
               THEN pc' = "aw_gap" /\ UNCHANGED i
               ELSE pc' = "print_loop" /\ i' = i + 1
            /\ UNCHANGED <<step, send, cmdLog>>
  /\ UNCHANGED <<calls, encoding, page>>
  /\ UNCHANGED <<args, binding, connected, line, conn, wire, gatt, outcome, counts>>

\* A conversion that reports progress for the image it failed to load.
ImageConvertedReporting ==
  /\ pc = "aw_image"
  /\ ~ImgLoads(images[i + 1])
  /\ Throw(Error("Failed to load image"), FALSE)
  /\ progress' = Append(progress, [args |-> ProgressArgs(i, Len(images)),
                                   commands |-> Len(cmdLog)])
  /\ UNCHANGED <<calls, encoding, page>>
  /\ UNCHANGED <<args, connectedDevice, connected, frame, conn, send, cmdLog, wire,
                 gatt, counts>>

\* await imageToEscPosBitmap(image.dataUrl, maxWidth) settles: the image data
\* is sent, as one raster command or, in the earlier revision, line by line.
ImageConverted ==
  /\ pc = "aw_image"
  /\ LET id == images[i + 1]
         bitmap == Bitmaps[revision][id]
     IN  IF ~ImgLoads(id)
         THEN /\ Throw(Error("Failed to load image"), FALSE)
              /\ UNCHANGED <<step, line, send, cmdLog>>
         ELSE IF ScaledHeight(ImgWidth(id), ImgHeight(id), PrintWidth(revision)) = 0
              THEN \* getImageData on a canvas of height 0: the conversion rejects
                   /\ Throw(IndexSizeError, FALSE)
                   /\ UNCHANGED <<step, line, send, cmdLog>>
              ELSE /\ line' = 0
                   /\ Issue(IF revision = Current THEN Rasters[id]
                            ELSE LineCommand(bitmap, 0), 4)
                   /\ UNCHANGED <<printerCharacteristic, outcome>>
  /\ UNCHANGED <<calls, encoding, page>>
  /\ UNCHANGED <<args, connectedDevice, connected, i, conn, wire, progress, gatt, counts>>

\* The 5 ms delay after a line of the earlier revision ends: the next line,
\* or the feed.
LineSent ==
  /\ pc = "aw_line"
  /\ line' = line + 1
  /\ LET bitmap == Bitmaps[revision][images[i + 1]]
     IN  IF line + 1 < Len(bitmap)
         THEN Issue(LineCommand(bitmap, line + 1), 4)
         ELSE Issue(FeedPaper(revision), 5)
  /\ UNCHANGED <<calls, encoding, page>>
  /\ UNCHANGED <<args, binding, connected, i, conn, wire, progress, gatt, outcome,
                 counts>>

\* The 1 s pause between two images ends.
GapElapsed ==
  /\ pc = "aw_gap"
  /\ i' = i + 1
  /\ pc' = "print_loop"
  /\ UNCHANGED <<calls, encoding, page>>
  /\ UNCHANGED <<args, binding, connected, step, line, conn, send, observed, gatt,
                 outcome, counts>>

(* ------------------- the command builder on its own -------------------- *)

\* const bitmap of printImages: the bitmap the state names.
ResolvedBitmap ==
  RasterInput(encoded.shape.rowBytes, encoded.shape.rows, encoded.shape.seed)

\* From "const widthBytes = bitmap[0].length" to the last cmd.push(...) of
\* printImages: the raster command is built from the bitmap.
BuildRasterCommand ==
  /\ encoded.status = "resolved"
  /\ rasterCmd = <<>>
  /\ raised = NoError
  /\ IF Len(ResolvedBitmap) = 0
     THEN \* bitmap[0].length of an empty bitmap
          raised' = TypeError /\ UNCHANGED rasterCmd
     ELSE rasterCmd' = RasterCommand(ResolvedBitmap) /\ UNCHANGED raised
  /\ UNCHANGED <<args, binding, connected, pc, frame, conn, send, observed, gatt,
                 result, rejection, counts, calls, request, encoded, page>>

(* ------------------------------ handlePrint ---------------------------- *)

\* The print jobs the triggers start: a second job can start while the first
\* is suspended.
Jobs == {1, 2}

\* The batches the triggers pass: no image, one whose raster command takes
\* two chunks, or two whose raster commands take one.
TriggerBatches == {<<>>, <<Band>>, <<Strip, Strip>>}

\* How often the event loop may turn from a suspended call to the other.
MaxSwitches == 1

\* The running printImages call with its locals, as it is suspended.
Frame ==
  [pc |-> pc, job |-> job, images |-> images, onProgress |-> onProgress,
   i |-> i, step |-> step, line |-> line,
   caller |-> caller, server |-> server, service |-> service, k |-> k,
   command |-> command, offset |-> offset, reconnects |-> reconnects,
   cmdLog |-> cmdLog, progress |-> progress,
   gattOps |-> gattOps, wasConnected |-> wasConnected, assigned |-> assigned,
   result |-> result, raised |-> raised, rejection |-> rejection]

\* handlePrint(imagesToPrint) with a printer connected: printImages is called
\* with a progress callback and runs up to its first await, whether or not an
\* earlier call is still suspended at one of its awaits.
printImagesFromPage(imagesToPrint) ==
  /\ pc \in AwaitPoints \cup {"idle"}
  /\ other.pc = "none"
  /\ prints + 1 \in Jobs
  /\ connectedDevice # NoDevice
  /\ other' = IF pc = "idle" THEN NoCall ELSE Frame
  /\ prints' = prints + 1
  /\ job' = prints + 1
  /\ images' = imagesToPrint
  /\ onProgress' = TRUE
  /\ i' = 0 /\ step' = 0 /\ line' = 0
  /\ server' = NoDevice /\ service' = 0 /\ k' = 0
  /\ command' = <<>> /\ offset' = 0 /\ reconnects' = 0
  /\ cmdLog' = <<>> /\ progress' = <<>>
  /\ gattOps' = <<>> /\ wasConnected' = FALSE /\ assigned' = FALSE
  /\ result' = "pending"
  /\ raised' = NoError
  /\ rejection' = NoError
  /\ pc' = "conn_entry"
  /\ caller' = "printImages"
  /\ UNCHANGED <<revision, binding, connected, wire, rebinds, bindArg, switches,
                 encoding>>

\* handlePrint(imagesToPrint) of a page that shows a printer as connected:
\* the test of its first line passes and printImages is called.
handlePrint ==
  /\ isPrinterConnected
  /\ \E imagesToPrint \in TriggerBatches : printImagesFromPage(imagesToPrint)
  /\ UNCHANGED page

(* -------------------------------- the page ----------------------------- *)

\* "!isPrinterConnected || !getConnectedDevice()" of handlePrint is false, in
\* a render that saw isPrinterConnected as shown.
CanPrint(shown) == shown /\ connectedDevice # NoDevice

\* handlePrint(imagesToPrint) as defined by a render that saw
\* isPrinterConnected as shown, but for what becomes of pendingPrintImages:
\* printImages is called, or the user is asked to connect a printer.
handlePrintOf(shown, imagesToPrint) ==
  IF CanPrint(shown)
  THEN printImagesFromPage(imagesToPrint) /\ UNCHANGED showPrinterDialog
  ELSE /\ showPrinterDialog' = TRUE
       /\ UNCHANGED <<args, binding, connected, pc, frame, conn, send, observed, gatt,
                      outcome, counts, calls, encoding>>

\* The toast handlePrint shows first.
ToastOf(shown) ==
  IF CanPrint(shown) THEN "Printing receipt(s)..." ELSE "Please connect a printer first"

\* onPrint={handlePrint}: the user asks for the selected images to be
\* printed, no print running.
onPrint ==
  /\ pc = "idle"
  /\ \E imagesToPrint \in TriggerBatches \ {<<>>} :
       /\ handlePrintOf(isPrinterConnected, imagesToPrint)
       /\ pendingPrintImages' = IF CanPrint(isPrinterConnected)
                                 THEN pendingPrintImages ELSE Pending(imagesToPrint)
  /\ UNCHANGED <<isPrinterConnected, connecting, autoPrint>>

\* onConnectPrinter of the header, which shows no printer as connected: the
\* dialog is opened.
onConnectPrinter ==
  /\ pc = "idle"
  /\ ~isPrinterConnected
  /\ ~showPrinterDialog
  /\ showPrinterDialog' = TRUE
  /\ UNCHANGED <<args, binding, connected, pc, frame, conn, send, observed, gatt,
                 outcome, counts, calls, encoding>>
  /\ UNCHANGED <<isPrinterConnected, pendingPrintImages, connecting, autoPrint>>

\* connectPrinter of the dialog up to "await requestDevice", no print
\* running: the call keeps the onConnected of the render it was made in.
connectPrinter ==
  /\ pc = "idle"
  /\ showPrinterDialog
  /\ connecting.pc = "none"
  /\ connecting' = [pc |-> "aw_device",
                    isPrinterConnected |-> isPrinterConnected,
                    pendingPrintImages |-> pendingPrintImages]
  /\ UNCHANGED <<args, binding, connected, pc, frame, conn, send, observed, gatt,
                 outcome, counts, calls, encoding>>
  /\ UNCHANGED <<isPrinterConnected, pendingPrintImages, showPrinterDialog, autoPrint>>

\* requestDevice settles.  With a device: setConnectedDevice(device), then
\* onConnected(), which is handlePrinterConnected: setIsPrinterConnected(true)
\* and, with images pending, the 100 ms timeout; then the 1500 ms timeout of
\* onClose.  Without one (the chooser was dismissed): nothing but a toast.
DeviceChosen ==
  /\ connecting.pc = "aw_device"
  /\ pc = "idle"
  /\ \E device \in Devices \cup {NoDevice} :
       IF device = NoDevice
       THEN /\ connecting' = NotConnecting
            /\ UNCHANGED <<binding, counts, isPrinterConnected, autoPrint>>
       ELSE /\ rebinds < MaxRebinds
            /\ connectedDevice' = device
            /\ printerCharacteristic' = NoCharacteristic
            /\ rebinds' = rebinds + 1
            /\ bindArg' = device
            /\ isPrinterConnected' = TRUE
            /\ autoPrint' = IF connecting.pendingPrintImages.set
                            THEN [pc |-> "armed",
                                  images |-> connecting.pendingPrintImages.images,
                                  isPrinterConnected |-> connecting.isPrinterConnected]
                            ELSE autoPrint
            /\ connecting' = [pc |-> "aw_close"]
            /\ UNCHANGED prints
  /\ UNCHANGED <<args, connected, pc, frame, conn, send, observed, gatt, outcome,
                 calls, encoding>>
  /\ UNCHANGED <<pendingPrintImages, showPrinterDialog>>

\* The 1500 ms timeout of the dialog ends: onClose().
onClose ==
  /\ connecting.pc = "aw_close"
  /\ showPrinterDialog' = FALSE
  /\ connecting' = NotConnecting
  /\ UNCHANGED <<args, binding, connected, pc, frame, conn, send, observed, gatt,
                 outcome, counts, calls, encoding>>
  /\ UNCHANGED <<isPrinterConnected, pendingPrintImages, autoPrint>>

\* The 100 ms timeout of handlePrinterConnected ends:
\* handlePrint(pendingPrintImages), both as the render that armed the timeout
\* saw them, then setPendingPrintImages(null).
PendingTimeout ==
  /\ autoPrint.pc = "armed"
  /\ pc = "idle"
  /\ handlePrintOf(autoPrint.isPrinterConnected, autoPrint.images)
  /\ pendingPrintImages' = NoPending
  /\ autoPrint' = [pc |-> "fired",
                   images |-> autoPrint.images,
                   printImagesCalls |-> prints' - prints,
                   toast |-> ToastOf(autoPrint.isPrinterConnected)]
  /\ UNCHANGED <<isPrinterConnected, connecting>>

\* The page before any printer was connected.
InitPending ==
  /\ InitFor(Current, {})
  /\ connectedDevice = NoDevice
  /\ onProgress

\* What the suspended call awaits settles while the running call is itself
\* suspended or has ended: the suspended call continues.
Resume ==
  /\ pc \in AwaitPoints \cup {"idle"}
  /\ other.pc \in AwaitPoints
  /\ IF pc = "idle"
     THEN other' = NoCall /\ UNCHANGED switches
     ELSE /\ switches < MaxSwitches
          /\ switches' = switches + 1
          /\ other' = Frame
  /\ pc' = other.pc /\ job' = other.job
  /\ images' = other.images /\ onProgress' = other.onProgress
  /\ i' = other.i /\ step' = other.step /\ line' = other.line
  /\ caller' = other.caller /\ server' = other.server
  /\ service' = other.service /\ k' = other.k
  /\ command' = other.command /\ offset' = other.offset
  /\ reconnects' = other.reconnects
  /\ cmdLog' = other.cmdLog /\ progress' = other.progress
  /\ gattOps' = other.gattOps /\ wasConnected' = other.wasConnected
  /\ assigned' = other.assigned
  /\ result' = other.result /\ raised' = other.raised /\ rejection' = other.rejection
  /\ UNCHANGED <<revision, binding, connected, wire, counts, encoding, page>>

\* The page with a printer connected through the dialog and stored, its link
\* still up or lost since, and nothing printed yet.
InitTriggers ==
  /\ InitFor(Current, {})
  /\ connectedDevice # NoDevice
  /\ onProgress

\* handlePrint with no print running: printImages is called again.
printAgain ==
  /\ pc = "idle"
  /\ handlePrint

\* The earlier revision before the first print trigger.
InitLegacyRepeat ==
  /\ InitFor(Legacy, {})
  /\ connectedDevice # NoDevice
  /\ onProgress

(* --------------------- the image encoder on its own -------------------- *)

\* The images and maxWidth arguments imageToEscPosBitmap is examined on:
\* source widths below 8, at and around multiples of 8, and above every
\* maxWidth; maxWidth at and between multiples of 8, and the 384 printImages
\* passes.
SourceWidths == {1, 5, 8, 9, 15, 16, 17, 30, 100, 385, 800}
SourceHeights == {1, 2, 3, 7}
MaxWidths == {8, 9, 15, 16, 20, 384}
Pictures == {"source", "spots", "dark", "light", "faint", "grey"}
EncoderRequests ==
  [dataUrl : {Image(name, w, h, TRUE) :
                name \in Pictures, w \in SourceWidths, h \in SourceHeights}
               \cup {Image("broken", 16, 2, FALSE)},
   maxWidth : MaxWidths]

\* imageToEscPosBitmap(dataUrl, maxWidth) has been called: img.src is set.
InitEncoder ==
  /\ Session(Current, {})
  /\ connectedDevice = NoDevice
  /\ ~onProgress
  /\ request \in EncoderRequests
  /\ encoded = NotEncoded
  /\ rasterCmd = <<>>

\* img.onload: the image is drawn, dithered and packed; whatever the try
\* block throws rejects the promise.
ImageLoaded ==
  /\ encoded.status = "none"
  /\ ImgLoads(request.dataUrl)
  /\ LET img == request.dataUrl
         height == ScaledHeight(ImgWidth(img), ImgHeight(img), request.maxWidth)
     IN  encoded' = IF height = 0
                    THEN [status |-> "rejected", error |-> IndexSizeError]
                    ELSE [status |-> "resolved",
                          bitmap |-> imageToEscPosBitmap(img, request.maxWidth, revision),
                          dithered |-> Dither(img, request.maxWidth, revision).dithered,
                          errors |-> Dither(img, request.maxWidth, revision).errors,
                          spread |-> Dither(img, request.maxWidth, revision).spread,
                          decided |-> Dither(img, request.maxWidth, revision).decided]
  /\ UNCHANGED <<args, binding, connected, pc, frame, conn, send, observed, gatt,
                 outcome, counts, calls, request, rasterCmd, page>>

\* img.onerror
ImageFailed ==
  /\ encoded.status = "none"
  /\ ~ImgLoads(request.dataUrl)
  /\ encoded' = [status |-> "rejected", error |-> Error("Failed to load image")]
  /\ UNCHANGED <<args, binding, connected, pc, frame, conn, send, observed, gatt,
                 outcome, counts, calls, request, rasterCmd, page>>

(* ---------------------------- specifications --------------------------- *)

\* The steps of a printImages call, once made, that both revisions have.
Body ==
  \/ connectToPrinter
  \/ GattConnect
  \/ GetPrimaryServices
  \/ GetPrimaryService
  \/ GetCharacteristics
  \/ GetCharacteristic
  \/ sendCommand
  \/ SendFirst
  \/ Written
  \/ PrintLoop
  \/ Delayed
  \/ ImageConverted
  \/ GapElapsed

\* printImages is called while no call is running, and runs.
Steps == printImages \/ Body

\* The steps only the chunking revision has.
Chunking ==
  \/ Settled
  \/ Ready
  \/ Paced
  \/ ChunkWritten
  \/ ChunkPaced

\* The link to a device is lost while printImages is idle or suspended.
LinkLost == \E d \in Devices : GattServerDisconnected(d)

\* The UI calls setConnectedDevice between printImages calls or while one is
\* suspended at an await.
Rebind ==
  \E d \in Devices \cup {NoDevice} :
    pc \in AwaitPoints \cup {"idle"} /\ setConnectedDevice(d)

\* The chunking revision, printing on the device stored before the call.
Next == Steps \/ Chunking \/ LinkLost

Spec == Init /\ [][Next]_vars

\* The chunking revision where every platform operation a call awaits (link
\* connect, discovery, write, image load, timer) settles and the event loop
\* then runs the call's continuation.  Nothing obliges the link to drop.
Progress == WF_vars(Body \/ Chunking)

SpecLive == Init /\ [][Next]_vars /\ Progress

\* The earlier revision.
NextLegacy == Steps \/ GattConnectAgain \/ LineSent \/ LinkLost

SpecLegacy == InitLegacy /\ [][NextLegacy]_vars

\* The chunking revision with the UI storing devices at any time.
NextInterleaved == Steps \/ Chunking \/ Rebind

SpecInterleaved == InitInterleaved /\ [][NextInterleaved]_vars

\* The chunking revision under print triggers that do not wait for the
\* previous print to end.
NextTriggers == Body \/ Chunking \/ handlePrint \/ Resume

SpecTriggers == InitTriggers /\ [][NextTriggers]_vars

\* The chunking revision with the user printing again once the previous
\* print has ended, on the device stored before, whose link may drop.
NextRepeat == Body \/ Chunking \/ printAgain \/ LinkLost

SpecRepeat == InitTriggers /\ [][NextRepeat]_vars

\* The earlier revision with the user printing again once the previous print
\* has ended.
NextLegacyRepeat == Body \/ GattConnectAgain \/ LineSent \/ printAgain \/ LinkLost

SpecLegacyRepeat == InitLegacyRepeat /\ [][NextLegacyRepeat]_vars

\* The dialog stores a device while a command is between two chunk writes.
RebindMidCommand ==
  /\ pc \in ChunkPoints
  /\ Rebind

\* A print is triggered with none running, or while the running one is
\* between two chunk writes.
handlePrintMidCommand ==
  /\ pc \in ChunkPoints \cup {"idle"}
  /\ handlePrint

\* The chunking revision with the UI acting while a command is between two
\* chunk writes.
NextMidCommand == Body \/ Chunking \/ handlePrintMidCommand \/ RebindMidCommand \/ Resume

SpecMidCommand == InitTriggers /\ [][NextMidCommand]_vars

\* The page and the chunking revision: prints asked for before and after a
\* printer is connected through the dialog.
NextPending ==
  \/ Body
  \/ Chunking
  \/ onPrint
  \/ onConnectPrinter
  \/ connectPrinter
  \/ DeviceChosen
  \/ onClose
  \/ PendingTimeout

SpecPending == InitPending /\ [][NextPending]_vars

\* The raster command builder of printImages, on the bitmaps of RasterInputs.
NextBuilder == BuildRasterCommand

SpecBuilder == InitBuilder /\ [][NextBuilder]_vars

\* imageToEscPosBitmap on its own: one call settles.
NextEncoder ==
  \/ ImageLoaded
  \/ ImageFailed

SpecEncoder == InitEncoder /\ [][NextEncoder]_vars

(* ------------------------------ properties ----------------------------- *)

\* The writes made for the n-th sendCommand call, and the bytes they carried.
Writes(n) == SelectSeq(wire, LAMBDA w : w.command = n)
BytesOf(ws) == Flatten([j \in 1..Len(ws) |-> ws[j].data])
IsPrefix(short, long) ==
  Len(short) <= Len(long) /\ short = SubSeq(long, 1, Len(short))

\* The n-th sendCommand call has been written completely: every write it
\* made has succeeded and together they carried the command.
Complete(n) ==
  /\ Writes(n) # <<>>
  /\ \A j \in 1..Len(Writes(n)) : Writes(n)[j].status = "ok"
  /\ BytesOf(Writes(n)) = cmdLog[n].command

\* The latest sendCommand call has returned to printImages.
Returned == pc \in {"aw_delay", "aw_image", "aw_gap", "print_loop"} \/ result = "resolved"

\* The awaits of connectToPrinter, and its entry.
ConnectPoints == {"conn_entry", "aw_connect", "aw_settle", "aw_services", "aw_service",
                  "aw_chars", "aw_char", "aw_ready"}

\* C1: with every write succeeding, printImages issues for each image, in
\* input order, exactly six sendCommand calls: init, density, line spacing
\* zero, one raster transfer, a feed of 0x0A bytes only, cut; a call is issued
\* only when every earlier one has been written completely, so the six
\* commands of an image precede every command of the next.
C1_CommandOrder ==
  /\ \A n \in 1..Len(cmdLog) :
       LET cmd == cmdLog[n].command
           img == ((n - 1) \div 6) + 1
       IN  /\ cmdLog[n].image = img
           /\ CASE n % 6 = 1 -> cmd = <<27, 64>>
                [] n % 6 = 2 -> cmd = <<29, 124, 0, 50, 50>>
                [] n % 6 = 3 -> cmd = <<27, 51, 0>>
                [] n % 6 = 4 -> /\ SubSeq(cmd, 1, 4) = <<29, 118, 48, 0>>
                                /\ cmd = RasterCommand(Bitmaps[Current][images[img]])
                [] n % 6 = 5 -> cmd # <<>> /\ \A j \in 1..Len(cmd) : cmd[j] = 10
                [] OTHER -> cmd = <<29, 86, 0>>
           /\ n < Len(cmdLog) => Complete(n)
  /\ \A j \in 1..Len(wire) : \A m \in 1..j : wire[m].command <= wire[j].command
  /\ result = "resolved" =>
       /\ Len(cmdLog) = 6 * Len(images)
       /\ \A n \in 1..Len(cmdLog) : Complete(n)

\* A batch of two different images has been printed.
C1_Witness ==
  /\ result = "resolved"
  /\ Len(images) = 2
  /\ images[1] # images[2]
  /\ Len(cmdLog) = 12

\* C2: when a characteristic write fails while a command of the k-th image
\* is being sent, printImages rejects, the failed write belongs to the last
\* command ever issued (nothing more of image k, nothing of a later image),
\* and onProgress has been called exactly k - 1 times, with (1, N) .. (k-1, N).
C2_FailFast ==
  (result = "rejected" /\ wire # <<>> /\ Last(wire).status = "failed") =>
    LET kth == Last(cmdLog).image
    IN  /\ pc = "idle"
        /\ Last(wire).command = Len(cmdLog)
        /\ \A n \in 1..Len(cmdLog) : cmdLog[n].image <= kth
        /\ \A j \in 1..(Len(wire) - 1) : wire[j].status = "ok"
        /\ Len(progress) = IF onProgress THEN kth - 1 ELSE 0
        /\ \A j \in 1..Len(progress) : progress[j].args = <<j, Len(images)>>

\* The raster transfer of the second of two images failed.
C2_Witness ==
  /\ result = "rejected"
  /\ onProgress
  /\ Len(images) = 2
  /\ Len(cmdLog) = 10
  /\ wire # <<>>
  /\ Last(wire).status = "failed"
  /\ Len(progress) = 1
  /\ progress[1].args = <<1, 2>>

\* C3: onProgress is called with (1, N), (2, N), ... in that order, the j-th
\* call when exactly the 6 j commands of the first j images have been issued
\* (so before the init of image j + 1) and the cut of image j has been written
\* completely; a successful run makes exactly N calls.
C3_Progress ==
  /\ ~onProgress => progress = <<>>
  /\ \A j \in 1..Len(progress) :
       /\ progress[j].args = <<j, Len(images)>>
       /\ progress[j].commands = 6 * j
       /\ cmdLog[6 * j].command = <<29, 86, 0>>
       /\ cmdLog[6 * j].image = j
  /\ (progress # <<>> /\ Len(cmdLog) = 6 * Len(progress)) => Complete(Len(cmdLog))
  /\ (result = "resolved" /\ onProgress) => Len(progress) = Len(images)

\* onProgress has been called for both images of a batch.
C3_Witness ==
  /\ result = "resolved"
  /\ Len(images) = 2
  /\ Len(progress) = 2
  /\ progress[2].args = <<2, 2>>

\* C4, as amended: an error raised inside the try block of printImages (by
\* connect, by send or by the encoder) reaches the caller as a new Error whose
\* message is "Failed to print: " followed by the raised error's message, or
\* by "Unknown error" when the raised value is no Error; only the error
\* raised before the try block, when no device is stored, arrives as raised.
C4_Wrapped ==
  result = "rejected" =>
    IF raised.message = "No printer connected. Please connect a printer first."
    THEN rejection = raised
    ELSE /\ rejection.isError
         /\ rejection.name = "Error"
         /\ rejection.message =
              "Failed to print: " \o
                (IF raised.isError THEN raised.message ELSE "Unknown error")

\* A platform error raised by a write has reached the caller wrapped.
C4_Witness ==
  /\ result = "rejected"
  /\ raised.name = "NetworkError"
  /\ wire # <<>>
  /\ Last(wire).status = "failed"
  /\ rejection.name = "Error"
  /\ rejection.message = "Failed to print: GATT operation failed"

\* C4 as stated: the rejection value is the very error that was raised.
C4_Unmodified == result = "rejected" => rejection = raised

\* C5: every write of a sendCommand call carries at most 200 bytes, every
\* write but the last exactly 200; a write begins only when the one before
\* has succeeded; the bytes written so far are the command's first bytes in
\* order; and once the call has returned, exactly max(1, ceil(L / 200))
\* writes have carried exactly the L bytes of the command.
C5_Chunks ==
  \A n \in 1..Len(cmdLog) :
    LET ws == Writes(n)
        cmd == cmdLog[n].command
    IN  /\ \A j \in 1..Len(ws) : Len(ws[j].data) <= 200
        /\ \A j \in 1..(Len(ws) - 1) : Len(ws[j].data) = 200 /\ ws[j].status = "ok"
        /\ IsPrefix(BytesOf(ws), cmd)
        /\ (n < Len(cmdLog) \/ Returned) =>
             /\ Len(ws) = IF Len(cmd) = 0 THEN 1 ELSE (Len(cmd) + 199) \div 200
             /\ BytesOf(ws) = cmd

\* Commands of 200 and of 440 bytes have been sent: in one and in three writes.
C5_Witness ==
  \E a, c \in 1..Len(cmdLog) :
    /\ Len(cmdLog[a].command) = 200 /\ Len(Writes(a)) = 1 /\ Complete(a)
    /\ Len(cmdLog[c].command) = 440 /\ Len(Writes(c)) = 3 /\ Complete(c)

\* C6: a failed write is the last write printImages makes: the call then
\* rejects, every write before it has succeeded, and the writes of its
\* command, the failed one included, carry the command's first bytes once
\* and in order (no later chunk, no second attempt at the failed one).
C6_NoRetry ==
  \A j \in 1..Len(wire) :
    wire[j].status = "failed" =>
      /\ j = Len(wire)
      /\ result = "rejected"
      /\ pc = "idle"
      /\ \A m \in 1..(j - 1) : wire[m].status = "ok"
      /\ wire[j].command = Len(cmdLog)
      /\ IsPrefix(BytesOf(Writes(Len(cmdLog))), Last(cmdLog).command)

\* The second chunk of a command of three has failed.
C6_Witness ==
  /\ result = "rejected"
  /\ cmdLog # <<>>
  /\ Len(Last(cmdLog).command) = 440
  /\ Len(Writes(Len(cmdLog))) = 2
  /\ Last(wire).status = "failed"
  /\ Last(wire).data = SubSeq(Last(cmdLog).command, 201, 400)

\* The connectToPrinter attempt of the running sendCommand call is over: it
\* has returned true, or it has thrown; and the characteristic it returned
\* true with, NoCharacteristic when nothing was bound any more at its return.
AttemptOver == reconnects = 1 /\ pc \notin ConnectPoints
HasReturned == AttemptOver /\ gattOps # <<>> /\ Last(gattOps)[1] = "return"
HasThrown == AttemptOver /\ ~HasReturned
ReturnedWith == Last(gattOps)[2]

\* What C7 states of every sendCommand call but the outcome of a successful
\* attempt: at most one connectToPrinter attempt, made exactly when no
\* characteristic was bound at the call; after a failed attempt the call
\* rejects with no write; a call with a characteristic bound does no connect
\* and no discovery.
C7_Lazy ==
  /\ reconnects \in {0, 1}
  /\ cmdLog # <<>> =>
       /\ Last(cmdLog).bound => (reconnects = 0 /\ pc \notin ConnectPoints)
       /\ (~Last(cmdLog).bound /\ pc # "send_entry") => reconnects = 1
       /\ (reconnects = 1 /\ ~HasReturned) => Writes(Len(cmdLog)) = <<>>
       /\ HasThrown => result = "rejected"
       /\ (reconnects = 1 /\ pc \in ConnectPoints) => caller = "sendCommand"

C8_WriteMode ==
  \A j \in 1..Len(wire) :
    /\ wire[j].mode \in {"writeValue", "writeValueWithoutResponse"}
    /\ wire[j].mode = "writeValueWithoutResponse"
         <=> wire[j].characteristic.properties.writeWithoutResponse

\* A short command and the chunks of a long one have been written without
\* response.
C8_Witness ==
  \E a, b \in 1..Len(wire) :
    /\ Len(cmdLog[wire[a].command].command) <= 200
    /\ Len(cmdLog[wire[b].command].command) > 200
    /\ wire[b].status = "ok"
    /\ wire[a].mode = "writeValueWithoutResponse"
    /\ wire[b].mode = "writeValueWithoutResponse"
    /\ wire[b].characteristic.properties.writeWithoutResponse
    /\ ~wire[b].characteristic.properties.write

\* C9: a setConnectedDevice call, in any state, stores its argument as the
\* current device, leaves no characteristic bound, and does no connect, no
\* discovery and no write: the links, the GATT operations and the writes
\* made so far, and the suspended printImages call, are as they were.
C9_BindOnly ==
  [][rebinds' # rebinds =>
       /\ connectedDevice' = bindArg'
       /\ printerCharacteristic' = NoCharacteristic
       /\ connected' = connected
       /\ gattOps' = gattOps
       /\ wire' = wire
       /\ cmdLog' = cmdLog
       /\ pc' = pc]_vars

\* setConnectedDevice has been called with another device while a write to
\* the bound characteristic was pending.
C9_Witness ==
  /\ rebinds = 1
  /\ pc = "aw_write"
  /\ wire # <<>>
  /\ Last(wire).status = "pending"
  /\ printerCharacteristic = NoCharacteristic
  /\ connectedDevice = bindArg
  /\ connectedDevice # Last(wire).characteristic.device

\* The platform connect calls of a trace of GATT operations.
ConnectCalls(ops) == Cardinality({j \in 1..Len(ops) : ops[j][1] = "connect"})

\* C10 as stated: once connectToPrinter is at service discovery it has made
\* no platform connect call when the link was up at the call, and exactly
\* one when it was not.
C10_ConnectOnce ==
  pc \in {"aw_services", "aw_service", "aw_chars", "aw_char", "aw_ready"} =>
    ConnectCalls(gattOps) = IF wasConnected THEN 0 ELSE 1

\* The GATT operations of the latest connectToPrinter call that have one of
\* the given names.
OpsNamed(names) == {j \in 1..Len(gattOps) : gattOps[j][1] \in names}

\* C11: on a device that enumerates zero primary services connectToPrinter
\* never queries a service by identifier, never enumerates or queries a
\* characteristic and binds none; it always fails, and when the enumeration
\* itself succeeded it fails with the no-services error.
C11_NoServices ==
  (server # NoDevice /\ Len(DeviceServices(server)) = 0) =>
    /\ OpsNamed({"getPrimaryService", "getCharacteristics", "getCharacteristic",
                 "return"}) = {}
    /\ printerCharacteristic = NoCharacteristic
    /\ pc \in ConnectPoints \/ result = "rejected"
    /\ (result = "rejected" /\ OpsNamed({"getPrimaryServices"}) # {}
          /\ raised \notin PlatformErrors) =>
         raised = Error("No services found in device. Make sure it's a Bluetooth printer.")

\* The enumeration of a device without services has succeeded, and
\* connectToPrinter has failed.
C11_Witness ==
  /\ server # NoDevice
  /\ Len(DeviceServices(server)) = 0
  /\ OpsNamed({"getPrimaryServices"}) # {}
  /\ result = "rejected"
  /\ raised.message = "No services found in device. Make sure it's a Bluetooth printer."
  /\ rejection.message =
       "Failed to print: No services found in device. Make sure it's a Bluetooth printer."

\* A characteristic handle that can be written to, with or without response.
Writable(c) == c.properties.write \/ c.properties.writeWithoutResponse

\* C12 as stated: every characteristic connectToPrinter has returned true
\* with can be written to, and when the selected service has no
\* characteristic that can be written to, the call does not return true but
\* rejects.
C12_WritableOrFails ==
  /\ \A j \in OpsNamed({"return"}) : Writable(gattOps[j][2])
  /\ (server # NoDevice /\ service # 0 /\ pc \notin ConnectPoints
        /\ FindWritable(server, service) = NoCharacteristic) =>
       result = "rejected"

\* The services in the order of preference C13 states, and the place in that
\* order of the most preferred one device d exposes (0: it exposes none).
ServicePreference ==
  << "000018f0-0000-1000-8000-00805f9b34fb", "49535343-fe7d-4ae5-8fa9-9fafd205e455",
     "0000fff0-0000-1000-8000-00805f9b34fb", "e7810a71-73ae-499d-8c15-faa9aef0c3f2" >>
Preferred(d) ==
  LET exposed == {DeviceServices(d)[n].uuid : n \in 1..Len(DeviceServices(d))}
      known == {j \in 1..Len(ServicePreference) : ServicePreference[j] \in exposed}
  IN  IF known = {} THEN 0 ELSE CHOOSE j \in known : \A m \in known : j <= m

\* The messages of the errors connectToPrinter raises itself during discovery.
DiscoveryFailures ==
  { "No services found in device. Make sure it's a Bluetooth printer.",
    "No compatible printer service found",
    "No writable characteristic found. Device may not be a printer." }

CharPreference ==
  << "00002af1-0000-1000-8000-00805f9b34fb", "49535343-8841-43f4-a8d4-ecbe34729bb3",
     "0000fff1-0000-1000-8000-00805f9b34fb", "bef8d6c9-9c21-4c9e-b632-bd58c1009f9f" >>
PresentKnown(d, n) ==
  LET cs == DeviceServices(d)[n].characteristics
  IN  {j \in 1..Len(CharPreference) : \E m \in 1..Len(cs) : cs[m].uuid = CharPreference[j]}
ExpectedUuid(d, n) ==
  LET cs == DeviceServices(d)[n].characteristics
      present == PresentKnown(d, n)
      writable == {m \in 1..Len(cs) : cs[m].write \/ cs[m].writeWithoutResponse}
  IN  IF present # {} THEN CharPreference[CHOOSE j \in present : \A m \in present : j <= m]
      ELSE IF writable # {} THEN cs[CHOOSE m \in writable : \A o \in writable : m <= o].uuid
      ELSE "none"

\* C14 as stated: a connectToPrinter call that started with no
\* characteristic bound (a call made by sendCommand, or by the first
\* printImages call of the session) has, once its loop over the known
\* characteristics is over, bound the most preferred known characteristic
\* present in the selected service, asking for the known ones in order of
\* preference and for none after the hit; when none is present it has bound
\* the first characteristic, in enumeration order, that can be written to.
C14_CharacteristicChoice ==
  (server # NoDevice /\ service # 0 /\ (caller = "sendCommand" \/ prints = 1)
     /\ (pc = "aw_ready" \/ OpsNamed({"return"}) # {})) =>
    LET present == PresentKnown(server, service)
        asked == IF present = {} THEN Len(CharPreference)
                 ELSE CHOOSE j \in present : \A m \in present : j <= m
        bound == IF pc = "aw_ready" THEN printerCharacteristic ELSE ReturnedWith
        first == CHOOSE j \in OpsNamed({"getCharacteristic"}) :
                   \A m \in OpsNamed({"getCharacteristic"}) : j <= m
        queries == [j \in 1..Cardinality(OpsNamed({"getCharacteristic"})) |->
                      gattOps[first + j - 1][2]]
    IN  /\ bound.uuid = ExpectedUuid(server, service)
        /\ bound.device = server
        /\ bound.service = DeviceServices(server)[service].uuid
        /\ queries = SubSeq(CharPreference, 1, asked)

\* C15 as stated, of the one operation the library has for giving the
\* printer up, setConnectedDevice(null): called in any state, it leaves no
\* characteristic bound, no device stored and the link to every device
\* released.
C15_Disconnect ==
  [][(rebinds' # rebinds /\ bindArg' = NoDevice) =>
       /\ printerCharacteristic' = NoCharacteristic
       /\ connectedDevice' = NoDevice
       /\ \A d \in Devices : ~connected'[d]]_vars

\* C16 as stated: whenever a characteristic is bound, a device is stored and
\* the characteristic is one discovered on that device.
C16_BindingConsistent ==
  printerCharacteristic # NoCharacteristic =>
    /\ connectedDevice # NoDevice
    /\ printerCharacteristic.device = connectedDevice

\* C18: for a bitmap of h rows of wb bytes, both at most 65535, the raster
\* command is the eight bytes 0x1D 0x76 0x30 0x00, wb mod 256, wb div 256,
\* h mod 256, h div 256, followed by exactly wb h bytes: the rows from top
\* to bottom, each from its first byte to its last.
C18_RasterLayout ==
  LET h == encoded.shape.rows
      wb == encoded.shape.rowBytes
  IN  (rasterCmd # <<>> /\ h <= 65535 /\ wb <= 65535) =>
        /\ SubSeq(rasterCmd, 1, 8) =
             <<29, 118, 48, 0, wb % 256, wb \div 256, h % 256, h \div 256>>
        /\ Len(rasterCmd) = 8 + wb * h
        /\ \A r \in 1..h : \A c \in 1..wb :
             rasterCmd[8 + (r - 1) * wb + c] = ResolvedBitmap[r][c]

\* The command of a bitmap of 500 rows of 3 bytes has been built: its
\* dimension bytes are 0x03 0x00 0xF4 0x01.
C18_Witness ==
  /\ encoded.shape.rows = 500
  /\ encoded.shape.rowBytes = 3
  /\ Len(rasterCmd) = 1508
  /\ SubSeq(rasterCmd, 5, 8) = <<3, 0, 244, 1>>
  /\ rasterCmd[9] # rasterCmd[12]

\* C19 as stated: for a bitmap of more than 65535 rows, or of rows of more
\* than 65535 bytes, building the raster command fails and no command is
\* built; and the two 16-bit fields of a command that is built are the
\* bitmap's row byte length and row count.
C19_NoTruncation ==
  LET h == encoded.shape.rows
      wb == encoded.shape.rowBytes
  IN  (encoded.status = "resolved" /\ (rasterCmd # <<>> \/ raised # NoError)) =>
        /\ (h > 65535 \/ wb > 65535) => (rasterCmd = <<>> /\ raised # NoError)
        /\ rasterCmd # <<>> =>
             /\ rasterCmd[5] + 256 * rasterCmd[6] = wb
             /\ rasterCmd[7] + 256 * rasterCmd[8] = h

\* C20: for a source image of w x h pixels and maxWidth M >= 8, the rows
\* imageToEscPosBitmap resolves with all have W/8 bytes, where
\* W = max(8, 8 * floor(min(w, M) / 8)); W is a multiple of 8; W <= M when
\* w > M; and there are h rows when w <= M.
C20_RowShape ==
  LET w == request.dataUrl.width
      h == request.dataUrl.height
      M == request.maxWidth
      floored == 8 * (Min(w, M) \div 8)
      W == IF floored < 8 THEN 8 ELSE floored
  IN  encoded.status = "resolved" =>
        /\ \A r \in 1..Len(encoded.bitmap) : 8 * Len(encoded.bitmap[r]) = W
        /\ W % 8 = 0
        /\ w > M => W <= M
        /\ w <= M => Len(encoded.bitmap) = h

\* An image 30 pixels wide is scaled to a maxWidth of 20 and comes out 16
\* pixels (2 bytes) wide and 4 rows high.
C20_Witness ==
  /\ request.dataUrl.width = 30
  /\ request.dataUrl.height = 7
  /\ request.maxWidth = 20
  /\ encoded.status = "resolved"
  /\ Len(encoded.bitmap) = 4
  /\ Len(encoded.bitmap[1]) = 2

\* C17 as stated: under any sequence of print triggers, no two writes are
\* pending at the same time, and the writes of one print job are never
\* separated by a write of another.
C17_OneJobAtATime ==
  /\ \A a, b \in 1..Len(wire) :
       (wire[a].status = "pending" /\ wire[b].status = "pending") => a = b
  /\ \A a, b, c \in 1..Len(wire) :
       (a < b /\ b < c /\ wire[a].job = wire[c].job) => wire[b].job = wire[a].job

\* Bit n of byte b, bit 0 the least significant.
BitOf(b, n) == (b \div (2 ^ n)) % 2

\* C21: in the bitmap imageToEscPosBitmap resolves with, bit 7 - x mod 8 of
\* byte x div 8 of row y is 1 exactly when the quantised pixel (x, y) is ink
\* (0), for every pixel of the canvas, and no byte has a bit beyond them.
C21_BitPacking ==
  encoded.status = "resolved" =>
    LET rows == Len(encoded.bitmap)
        width == Len(encoded.dithered) \div rows
    IN  /\ Len(encoded.dithered) = width * rows
        /\ \A y \in 0..(rows - 1) :
             /\ Len(encoded.bitmap[y + 1]) * 8 = width
             /\ \A x \in 0..(width - 1) :
                  BitOf(encoded.bitmap[y + 1][(x \div 8) + 1], 7 - (x % 8)) =
                    IF encoded.dithered[y * width + x + 1] = 0 THEN 1 ELSE 0
             /\ \A c \in 1..Len(encoded.bitmap[y + 1]) :
                  encoded.bitmap[y + 1][c] \in 0..255

\* A row of the diagonal picture has been packed into bytes that hold ink
\* and no ink side by side.
C21_Witness ==
  /\ encoded.status = "resolved"
  /\ request.dataUrl.name = "source"
  /\ request.dataUrl.width = 16
  /\ encoded.bitmap[1] = <<132, 33>>

\* The neighbours C22 names, with their weights in sixteenths.
Neighbours ==
  << [dx |-> 1, dy |-> 0, weight |-> 7], [dx |-> -1, dy |-> 1, weight |-> 3],
     [dx |-> 0, dy |-> 1, weight |-> 5], [dx |-> 1, dy |-> 1, weight |-> 1] >>

\* The pass as C22 states it, by coordinates: st.out holds the pixels
\* quantised so far, st.row and st.below the error accumulated on the pixels
\* of row y and of row y + 1.
StatedPixel(id, st, x, y, width, height) ==
  LET v == CanvasLevel(id, x, y)
      old == Grayscale(v, v, v) + st.row[x + 1]
      new == IF old < 200 * Unit THEN 0 ELSE 255
      e == old - new * Unit
      Give(rows, n) ==
        LET nx == x + Neighbours[n].dx
            ny == y + Neighbours[n].dy
            share == (e * Neighbours[n].weight) \div 16
        IN  IF nx >= 0 /\ nx < width /\ ny < height /\ Abs(e) > 10 * Unit
            THEN IF ny = y THEN [rows EXCEPT !.row[nx + 1] = @ + share]
                 ELSE [rows EXCEPT !.below[nx + 1] = @ + share]
            ELSE rows
      given == Give(Give(Give(Give(st, 1), 2), 3), 4)
  IN  IF x + 1 < width
      THEN [given EXCEPT !.out = Append(@, new)]
      ELSE [out |-> Append(st.out, new), row |-> given.below,
            below |-> [c \in 1..width |-> 0]]

RECURSIVE StatedRange(_, _, _, _, _, _)
StatedRange(id, st, lo, hi, width, height) ==
  IF hi <= lo THEN st
  ELSE IF hi = lo + 1 THEN StatedPixel(id, st, lo % width, lo \div width, width, height)
  ELSE LET mid == (lo + hi) \div 2
       IN  CHOOSE after \in
             {StatedRange(id, first, mid, hi, width, height) :
                first \in {StatedRange(id, st, lo, mid, width, height)}} : TRUE

Stated(id, width, height) ==
  StatedRange(id, [out |-> <<>>, row |-> [c \in 1..width |-> 0],
                   below |-> [c \in 1..width |-> 0]],
              0, width * height, width, height).out

\* C22: the pass quantises the pixels in raster order, ink exactly when the
\* accumulated luminance is below 200, and hands the error of pixel (x, y) on
\* to (x+1, y), (x-1, y+1), (x, y+1) and (x+1, y+1) with weights 7, 3, 5 and
\* 1 sixteenths, to each exactly when it lies inside the image: every index
\* written is inside the buffer, after the pixel being quantised, and the
\* index of the neighbour the weight belongs to.
C22_Diffusion ==
  encoded.status = "resolved" =>
    LET width == ScaledWidth(request.dataUrl.width, request.maxWidth)
        height == Len(encoded.bitmap)
    IN  /\ encoded.dithered = Stated(request.dataUrl, width, height)
        /\ \A y \in 0..(height - 1) : \A x \in 0..(width - 1) :
             LET idx == y * width + x
                 shares == Shares(x, y, width, height)
                 Inside(m) == /\ x + Neighbours[m].dx >= 0
                              /\ x + Neighbours[m].dx < width
                              /\ y + Neighbours[m].dy < height
             IN  /\ \A n \in 1..Len(shares) :
                      /\ idx + shares[n].delta > idx
                      /\ idx + shares[n].delta < width * height
                      /\ \E m \in 1..4 :
                           /\ Neighbours[m].weight = shares[n].weight
                           /\ Inside(m)
                           /\ idx + shares[n].delta =
                                (y + Neighbours[m].dy) * width + x + Neighbours[m].dx
                 /\ Len(shares) = Cardinality({m \in 1..4 : Inside(m)})

\* A grey page, lighter than the threshold all over, has come out with ink
\* on it: only handed-on error can have put it there.
C22_Witness ==
  /\ encoded.status = "resolved"
  /\ request.dataUrl.name = "grey"
  /\ request.dataUrl.width = 16
  /\ request.dataUrl.height = 3
  /\ request.maxWidth = 16
  /\ \E j \in 1..Len(encoded.dithered) : encoded.dithered[j] = 0

\* The luminance of canvas pixel (x, y) lies within 10 levels of black or of
\* white.
NearBlack(id, x, y) ==
  LET v == CanvasLevel(id, x, y) IN Grayscale(v, v, v) <= 10 * Unit
NearWhite(id, x, y) ==
  LET v == CanvasLevel(id, x, y) IN Grayscale(v, v, v) >= 245 * Unit

\* C23: a pixel whose error is at most 10 levels in magnitude hands nothing
\* on; and when every pixel of the canvas is within 10 levels of black or of
\* white, the bitmap is the plain thresholding of the canvas: a bit is 1
\* exactly for a near-black pixel, so a byte over near-white pixels only is 0.
C23_NoiseFloor ==
  encoded.status = "resolved" =>
    LET id == request.dataUrl
        width == ScaledWidth(request.dataUrl.width, request.maxWidth)
        height == Len(encoded.bitmap)
        canvas == (0..(width - 1)) \X (0..(height - 1))
    IN  /\ \A j \in 1..Len(encoded.errors) :
             Abs(encoded.errors[j]) <= 10 * Unit => ~encoded.spread[j]
        /\ (\A p \in canvas : NearBlack(id, p[1], p[2]) \/ NearWhite(id, p[1], p[2])) =>
             /\ \A j \in 1..Len(encoded.spread) : ~encoded.spread[j]
             /\ \A p \in canvas :
                  BitOf(encoded.bitmap[p[2] + 1][(p[1] \div 8) + 1], 7 - (p[1] % 8)) =
                    IF NearBlack(id, p[1], p[2]) THEN 1 ELSE 0
             /\ \A y \in 0..(height - 1) : \A c \in 0..((width \div 8) - 1) :
                  (\A b \in 0..7 : NearWhite(id, 8 * c + b, y)) =>
                    encoded.bitmap[y + 1][c + 1] = 0

\* A picture of levels 0, 5, 10, 245, 250 and 255 has been encoded: pixels
\* with an error of exactly 10 levels handed nothing on, and the bitmap has
\* bytes with ink and a byte without.
C23_Witness ==
  /\ encoded.status = "resolved"
  /\ request.dataUrl.name = "faint"
  /\ request.dataUrl.width = 16
  /\ request.dataUrl.height = 3
  /\ request.maxWidth = 16
  /\ \E j, m \in 1..Len(encoded.errors) :
       /\ encoded.errors[j] = 10 * Unit /\ ~encoded.spread[j]
       /\ encoded.errors[m] = -10 * Unit /\ ~encoded.spread[m]
  /\ encoded.bitmap[1] = <<240, 15>>
  /\ encoded.bitmap[2] = <<0, 240>>

\* Every dithering pass examined comes out as it does in the code.
Decided == encoded.status = "resolved" => encoded.decided

\* C24: when every awaited platform operation settles, a printImages call
\* does not stay pending: it resolves or rejects; the chunk loop of
\* sendCommand is left; a call that resolved on a non-empty batch wrote the
\* cut command of the last image last and in full; and once the call has
\* settled nothing more is written until another call is made.
C24_Terminates ==
  /\ (result = "pending") ~> (result \in {"resolved", "rejected"})
  /\ (pc \in ChunkPoints) ~> (pc \notin ChunkPoints)
  /\ [](result = "resolved" /\ images # <<>> =>
          /\ Last(cmdLog).command = CUT_PAPER
          /\ Last(cmdLog).image = Len(images)
          /\ Complete(Len(cmdLog)))
  /\ [][(result \in {"resolved", "rejected"} /\ prints' = prints) =>
          UNCHANGED wire]_vars

\* A batch of two images resolved, with a command sent in several chunks.
C24_Witness ==
  /\ result = "resolved"
  /\ Len(images) = 2
  /\ \E n \in 1..Len(cmdLog) : Len(Writes(n)) > 1

\* The commands issued for image n of the batch, in order.
CommandsFor(n) ==
  LET issued == SelectSeq(cmdLog, LAMBDA c : c.image = n)
  IN  [j \in 1..Len(issued) |-> issued[j].command]

\* C25: when the k-th image of the batch fails to load, printImages rejects;
\* the commands issued for image k are init, density and line spacing zero,
\* each written in full, with no raster transfer, feed or cut; no command of
\* a later image is issued; and onProgress, when given, has been called k-1
\* times, once for each image before k.
C25_ImageFailure ==
  (result = "rejected" /\ raised = Error("Failed to load image")) =>
    LET kth == i + 1
    IN  /\ pc = "idle"
        /\ ~ImgLoads(images[kth])
        /\ \A n \in 1..(kth - 1) : ImgLoads(images[n])
        /\ rejection = Error("Failed to print: Failed to load image")
        /\ CommandsFor(kth) = <<INIT, SET_DENSITY, SET_LINE_SPACING>>
        /\ \A n \in 1..Len(cmdLog) : cmdLog[n].image <= kth /\ Complete(n)
        /\ Len(cmdLog) = 6 * (kth - 1) + 3
        /\ Len(progress) = IF onProgress THEN kth - 1 ELSE 0
        /\ \A j \in 1..Len(progress) : progress[j].args = <<j, Len(images)>>

\* The second image of a batch failed to load after the first was printed
\* and reported.
C25_Witness ==
  /\ result = "rejected"
  /\ raised = Error("Failed to load image")
  /\ i = 1
  /\ onProgress
  /\ Len(progress) = 1
  /\ Len(cmdLog) = 9

\* connectToPrinter has returned true, and nothing has been done since.
ConnectReturned == gattOps # <<>> /\ Last(gattOps)[1] = "return"

\* C26: when a connectToPrinter call returns true, the characteristic bound
\* was assigned during that call, from the service selected in that call on
\* the device that call connected to; it is never the one an earlier call
\* left in printerCharacteristic.
C26_FreshHandle ==
  ConnectReturned =>
    /\ assigned
    /\ ReturnedWith.device = server
    /\ ReturnedWith.service = DeviceServices(server)[service].uuid

\* The latest connectToPrinter call failed, and printImages rejected.
ConnectFailed == result = "rejected" /\ ~ConnectReturned

\* C27: in either revision, when a connectToPrinter call fails (link connect,
\* no services, an enumeration, no writable characteristic) no characteristic
\* is bound once the failure is reported.
C27_FailureUnbinds ==
  (ConnectFailed /\ connectedDevice # NoDevice) =>
     printerCharacteristic = NoCharacteristic

\* C28: for every image that loads, whatever its size, imageToEscPosBitmap
\* resolves with a bitmap of at least one row, so that printImages has a
\* first row to read and a raster command to send.
C28_AtLeastOneRow ==
  (encoded.status # "none" /\ ImgLoads(request.dataUrl)) =>
     /\ encoded.status = "resolved"
     /\ Len(encoded.bitmap) >= 1

\* C29: all chunks of one sendCommand call are written to one and the same
\* characteristic, whatever the UI does between two chunk writes.
C29_OneCharacteristic ==
  \A a, b \in 1..Len(wire) :
    (wire[a].job = wire[b].job /\ wire[a].command = wire[b].command) =>
      wire[a].characteristic = wire[b].characteristic

\* C30: images stored as pending while no printer was connected are, once
\* the dialog has reported a connection and the timeout has run, passed to
\* printImages in exactly one call, the pending request is cleared, and the
\* user is not asked to connect a printer again.
C30_PendingPrinted ==
  autoPrint.pc = "fired" =>
    /\ autoPrint.printImagesCalls = 1
    /\ autoPrint.toast # "Please connect a printer first"
    /\ pendingPrintImages = NoPending

====
